---- MODULE Spec2Model ----
(***************************************************************************)
(* Model of the gdrive client library (src/gdrive.go).                     *)
(*                                                                         *)
(* Three specifications share this module:                                 *)
(*   SpecPath     - the buildPath helpers of ListFiles / ListFilesInFolder *)
(*                  stepped one loop iteration at a time over bounded      *)
(*                  folder listings;                                       *)
(*   Spec         - one enumeration call (ListFiles / ListFilesInFolder)   *)
(*                  against a paginating backend;                          *)
(*   SpecTransfer - one download, export or byte-range transfer call.      *)
(*                                                                         *)
(* Go strings that the code inspects or builds (identifiers, names, paths, *)
(* the Range header) are sequences of one-character strings, so that       *)
(* "" is <<>>, concatenation is \o and prefixes can be examined.           *)
(***************************************************************************)
EXTENDS Integers, Sequences, FiniteSets, TLC

VARIABLES
    \* ---- path resolution (buildPath) ----
    resolver,       \* which buildPath closure runs: "ListFiles" | "ListFilesInFolder"
    foldersResp,    \* foldersResp.Files: sequence of [Id, Name, Parents]
    parentIDs,      \* the argument of buildPath
    i,              \* loop counter
    currentID,      \* identifier being resolved
    visited,        \* set of identifiers with visited[id] = true
    pathParts,      \* accumulated segments, root-most first
    ppc,            \* position in buildPath: "entry" | "loop" | "after" | "returned"
    result,         \* the returned path string
    \* ---- enumeration call ----
    corpus,         \* backend: sequence of remote objects, in backend order
    folderChunk,    \* backend: number of items it puts on one folder page
    fileChunk,      \* backend: number of items it puts on one file page
    op,             \* "ListFiles" | "ListFilesInFolder"
    parentFolderID, \* argument of ListFilesInFolder
    pc,             \* "start" | "pages" | "done"
    pageToken,      \* loop variable pageToken
    files,          \* accumulated []FileInfo
    folderMap,      \* id -> name
    folderParentMap,\* id -> parents (ListFilesInFolder only)
    folderFiles,    \* foldersResp.Files as received by the call
    requests,       \* log of the remote requests issued by the call
    responses,      \* log of the responses received (items and nextPageToken)
    ret,            \* [files, err] returned by the call
    \* ---- transfer call ----
    top,            \* the transfer operation called
    fileID,         \* argument fileID
    revisionID,     \* argument revisionID (DownloadRevision, PartialDownloadRevision)
    opts,           \* [StartByte, EndByte]
    format,         \* argument format (ExportWorkspaceDocument...)
    outputPath,     \* argument outputPath (DownloadFile, ExportWorkspaceDocumentToFile)
    objSize,        \* backend: length in bytes of the addressed content
    ctx,            \* the caller's context: "live" | "cancelled"
    tpc,            \* "open" | "call" | "sent" | "copy" | "done"
    netlog,         \* log of the remote requests issued by the transfer
    resp,           \* the response in hand: [StatusCode, Body] or NoResp
    bodyState,      \* resp.Body: "none" | "open" | "closed"
    outState,       \* the output file out: "none" | "open" | "closed"
    written,        \* io.Copy's count of bytes copied so far
    copyOutcome,    \* how io.Copy ended: "none" | "eof" | "readError" | "writeError" | "cancelled"
    sink,           \* the io.Writer: sequence of [off, len] slices written
    tret,           \* [written, err, chain] returned by the transfer
    disk,           \* the file at outputPath: [exists, len, replaced]

    \* ---- upload, folder, trash and metadata calls on one remote object ----
    mop,            \* the operation called
    margs,          \* its arguments
    mpc,            \* "idle" | "ready" | "call" | "local" | "sent" | "done"
    mlog,           \* the remote requests issued by the call
    mresp,          \* the answer of Do(): NoMResp, a failure, or the object returned
    remote,         \* backend: the object the identifier names
    lastCreated,    \* backend: the metadata of the object the call created (0 or 1)
    upFile,         \* UploadFile's local file: "none" | "open" | "closed"
    mret,           \* the values returned by the call

    \* ---- calls running concurrently on one DriveClient ----
    cop,            \* per call: the operation
    cpc,            \* per call: position
    cpageToken,     \* per call: pageToken
    cfiles,         \* per call: files accumulated
    cindex,         \* per storage slot: the folder listing the index was built from
    cwritten,       \* per call: bytes copied
    cgot,           \* per call: the answers the backend gave to this call
    cret,           \* per call: the result returned
    ctrashed        \* backend: identifiers of trashed objects

pathVars == <<resolver, foldersResp, parentIDs, i, currentID, visited, pathParts, ppc, result>>
listVars == <<corpus, folderChunk, fileChunk, op, parentFolderID, pc, pageToken, files,
              folderMap, folderParentMap, folderFiles, requests, responses, ret>>
xferArgs == <<top, fileID, revisionID, opts, format, outputPath, objSize>>
xferVars == <<xferArgs, ctx, tpc, netlog, resp, bodyState, outState, written, copyOutcome,
              sink, tret, disk>>
opsVars == <<mop, margs, mpc, mlog, mresp, remote, lastCreated, upFile, mret>>
concVars == <<cop, cpc, cpageToken, cfiles, cindex, cwritten, cgot, cret, ctrashed>>
vars == <<pathVars, listVars, xferVars, opsVars, concVars>>

----------------------------------------------------------------------------
(* Bounds *)

MaxChain == 12      \* longest first-parent chain in the generated listings
MaxItems == 2       \* objects in the backend corpus besides the two fixed folders
MaxChunk == 2       \* largest number of items the backend puts on one page
MaxRequests == 6    \* file-listing requests modelled in one call

(* Program constants *)

MaxPageSize == 100
FolderPageSize == 1000
MaxLevels == 10
StatusOK == 200
StatusPartialContent == 206

----------------------------------------------------------------------------
(* Strings *)

MyDrive == <<"M","y"," ","D","r","i","v","e">>
Slash == <<"/">>
FolderMime == "application/vnd.google-apps.folder"

Digits == <<"0","1","2","3","4","5","6","7","8","9">>

\* fmt's %d
RECURSIVE Dec(_)
Dec(n) == IF n < 0 THEN <<"-">> \o Dec(0 - n)
          ELSE IF n < 10 THEN <<Digits[n + 1]>>
          ELSE Dec(n \div 10) \o <<Digits[(n % 10) + 1]>>

\* strings.Join(parts, sep)
RECURSIVE Join(_, _)
Join(parts, sep) ==
    IF Len(parts) = 0 THEN <<>>
    ELSE IF Len(parts) = 1 THEN parts[1]
    ELSE parts[1] \o sep \o Join(Tail(parts), sep)

HasPrefix(s, p) == Len(s) >= Len(p) /\ SubSeq(s, 1, Len(p)) = p

----------------------------------------------------------------------------
(* The folder index (lines 214-230, 336-353) *)

IdsOf(respFiles) == {respFiles[n].Id : n \in 1..Len(respFiles)}

LastIndexOf(respFiles, id) ==
    CHOOSE n \in 1..Len(respFiles) :
        /\ respFiles[n].Id = id
        /\ \A m \in (n+1)..Len(respFiles) : respFiles[m].Id # id

\* for _, folder := range foldersResp.Files { folderMap[folder.Id] = folder.Name }
BuildFolderMap(respFiles) ==
    [id \in IdsOf(respFiles) |-> respFiles[LastIndexOf(respFiles, id)].Name]

\* ... folderParentMap[folder.Id] = folder.Parents
BuildFolderParentMap(respFiles) ==
    [id \in IdsOf(respFiles) |-> respFiles[LastIndexOf(respFiles, id)].Parents]

----------------------------------------------------------------------------
(* buildPath: the loop, one iteration at a time *)

\* i < 10 && currentID != "" && !visited[currentID]
LoopCondNoVisited(s) == s.i < MaxLevels /\ s.currentID # <<>>
LoopCondNoLevels(s) == s.currentID # <<>> /\ s.currentID \notin s.visited
LoopCond(s) == s.i < MaxLevels /\ s.currentID # <<>> /\ s.currentID \notin s.visited

\* pathParts = append([]string{folderName}, pathParts...)
PrependAppends(folderName, parts) == parts \o <<folderName>>
Prepend(folderName, parts) == <<folderName>> \o parts

\* ListFiles: scan foldersResp.Files for the first entry with this id and a
\* non-empty parent list; currentID is left unchanged when there is none.
ParentByScanLastParent(respFiles, id) ==
    LET hits == {n \in 1..Len(respFiles) :
                    respFiles[n].Id = id /\ Len(respFiles[n].Parents) > 0}
    IN  IF hits = {} THEN id
        ELSE LET n == CHOOSE n \in hits : \A m \in hits : n <= m
             IN  respFiles[n].Parents[Len(respFiles[n].Parents)]
ParentByScan(respFiles, id) ==
    LET hits == {n \in 1..Len(respFiles) :
                    respFiles[n].Id = id /\ Len(respFiles[n].Parents) > 0}
    IN  IF hits = {} THEN id
        ELSE LET n == CHOOSE n \in hits : \A m \in hits : n <= m
             IN  respFiles[n].Parents[1]

\* One iteration of the loop body of ListFiles.buildPath.  brk is TRUE when
\* the body leaves the loop by break (no i++).
LF_BodyForgetsOnAbsent(s, fMap, respFiles) ==
    LET v == s.visited \cup {s.currentID}
    IN  IF s.currentID \in DOMAIN fMap
        THEN [i |-> s.i + 1,
              currentID |-> ParentByScan(respFiles, s.currentID),
              visited |-> v,
              pathParts |-> Prepend(fMap[s.currentID], s.pathParts),
              brk |-> FALSE]
        ELSE [s EXCEPT !.visited = v, !.pathParts = <<>>, !.brk = TRUE]
LF_Body(s, fMap, respFiles) ==
    LET v == s.visited \cup {s.currentID}
    IN  IF s.currentID \in DOMAIN fMap
        THEN [i |-> s.i + 1,
              currentID |-> ParentByScan(respFiles, s.currentID),
              visited |-> v,
              pathParts |-> Prepend(fMap[s.currentID], s.pathParts),
              brk |-> FALSE]
        ELSE [s EXCEPT !.visited = v, !.brk = TRUE]

\* One iteration of the loop body of ListFilesInFolder.buildPath.
LFF_Body(s, fMap, pMap) ==
    LET v == s.visited \cup {s.currentID}
    IN  IF s.currentID \in DOMAIN fMap
        THEN IF s.currentID \in DOMAIN pMap /\ Len(pMap[s.currentID]) > 0
             THEN [i |-> s.i + 1,
                   currentID |-> pMap[s.currentID][1],
                   visited |-> v,
                   pathParts |-> Prepend(fMap[s.currentID], s.pathParts),
                   brk |-> FALSE]
             ELSE [s EXCEPT !.visited = v,
                            !.pathParts = Prepend(fMap[s.currentID], s.pathParts),
                            !.brk = TRUE]
        ELSE [s EXCEPT !.visited = v, !.brk = TRUE]

\* var pathParts []string; currentID := parentIDs[0]; visited := make(...)
LoopInitLastParent(pIDs) ==
    [i |-> 0, currentID |-> pIDs[Len(pIDs)], visited |-> {}, pathParts |-> <<>>,
     brk |-> FALSE]
LoopInit(pIDs) ==
    [i |-> 0, currentID |-> pIDs[1], visited |-> {}, pathParts |-> <<>>, brk |-> FALSE]

\* if len(pathParts) == 0 { return "My Drive" }; return "My Drive/" + strings.Join(pathParts, "/")
PathStringBare(parts) == Join(parts, Slash)
PathString(parts) ==
    IF Len(parts) = 0 THEN MyDrive
    ELSE MyDrive \o Slash \o Join(parts, Slash)

RECURSIVE LF_Run(_, _, _)
LF_Run(s, fMap, respFiles) ==
    IF s.brk \/ ~LoopCond(s) THEN s
    ELSE LF_Run(LF_Body(s, fMap, respFiles), fMap, respFiles)

RECURSIVE LFF_Run(_, _, _)
LFF_Run(s, fMap, pMap) ==
    IF s.brk \/ ~LoopCond(s) THEN s
    ELSE LFF_Run(LFF_Body(s, fMap, pMap), fMap, pMap)

\* ListFiles.buildPath as a whole
LF_buildPath(pIDs, fMap, respFiles) ==
    IF Len(pIDs) = 0 THEN MyDrive
    ELSE PathString(LF_Run(LoopInit(pIDs), fMap, respFiles).pathParts)

\* ListFilesInFolder.buildPath as a whole
LFF_buildPath(pIDs, fMap, pMap) ==
    IF Len(pIDs) = 0 THEN MyDrive
    ELSE PathString(LFF_Run(LoopInit(pIDs), fMap, pMap).pathParts)

----------------------------------------------------------------------------
(* Folder listings and parent lists the path resolver is run on *)

IdA == <<"a">>
IdB == <<"b">>
IdC == <<"c">>
IdGhost == <<"x">>      \* an identifier no listing contains
NoID == <<>>            \* the empty string

Folder(id, name, parents) == [Id |-> id, Name |-> name, Parents |-> parents]

ParentChoices ==
    {<<>>} \cup {<<p>> : p \in {IdA, IdB, IdC, IdGhost, NoID}}
           \cup {<<p, IdB>> : p \in {IdA, IdGhost}}

\* every listing of three folders a, b, c (a and c share a display name)
SmallListings ==
    {<<Folder(IdA, <<"A">>, pa), Folder(IdB, <<"B">>, pb), Folder(IdC, <<"A">>, pc_)>> :
        pa \in ParentChoices, pb \in ParentChoices, pc_ \in {<<>>, <<IdA>>, <<IdC>>}}

ChainId(n) == <<"c">> \o Dec(n)
ChainName(n) == <<"N">> \o Dec(n)

\* c1 -> c2 -> ... -> cn -> tail
ChainListing(len, tail) ==
    [n \in 1..len |->
        Folder(ChainId(n), ChainName(n), IF n < len THEN <<ChainId(n + 1)>> ELSE tail)]

ChainTails(len) == {<<>>, <<IdGhost>>, <<NoID>>} \cup {<<ChainId(m)>> : m \in 1..len}

PathInputs ==
    {<<l, p>> : l \in SmallListings, p \in ParentChoices}
    \cup UNION {UNION {{<<ChainListing(len, t), <<ChainId(st)>>>> : st \in 1..len}
                        : t \in ChainTails(len)} : len \in 1..MaxChain}

----------------------------------------------------------------------------
(* Idle values of the variables a specification does not use *)

NoResp == [StatusCode |-> 0, Body |-> [off |-> 0, len |-> 0]]
NoRet == [files |-> <<>>, err |-> "", returned |-> FALSE]
NoTRet == [written |-> 0, err |-> "", chain |-> <<>>, returned |-> FALSE]
NoFile == [exists |-> FALSE, len |-> 0, replaced |-> FALSE]

PathIdle ==
    /\ resolver = "none" /\ foldersResp = <<>> /\ parentIDs = <<>>
    /\ i = 0 /\ currentID = <<>> /\ visited = {} /\ pathParts = <<>>
    /\ ppc = "idle" /\ result = <<>>

ListIdle ==
    /\ corpus = <<>> /\ folderChunk = 0 /\ fileChunk = 0
    /\ op = "none" /\ parentFolderID = <<>> /\ pc = "idle" /\ pageToken = <<>>
    /\ files = <<>> /\ folderMap = <<>> /\ folderParentMap = <<>> /\ folderFiles = <<>>
    /\ requests = <<>> /\ responses = <<>> /\ ret = NoRet

XferIdle ==
    /\ top = "none" /\ fileID = <<>> /\ revisionID = <<>>
    /\ opts = [StartByte |-> 0, EndByte |-> 0] /\ objSize = 0
    /\ format = <<>> /\ outputPath = <<>> /\ ctx = "live"
    /\ tpc = "idle" /\ netlog = <<>> /\ resp = NoResp
    /\ bodyState = "none" /\ outState = "none" /\ written = 0 /\ copyOutcome = "none"
    /\ sink = <<>> /\ tret = NoTRet /\ disk = NoFile

NoArgs == [fileID |-> <<>>, name |-> <<>>, mimeType |-> "", parentFolderID |-> <<>>,
           filePath |-> <<>>, reader |-> "nil", content |-> "text"]
NoMResp == [got |-> FALSE, ok |-> FALSE, id |-> <<>>, mimeType |-> <<>>, exportLinks |-> {}]
NoMRet == [id |-> <<>>, flag |-> FALSE, links |-> {}, nilLinks |-> TRUE,
           err |-> "", chain |-> <<>>, returned |-> FALSE]
NoRemote == [exists |-> FALSE, trashed |-> FALSE, mimeType |-> <<>>, exportLinks |-> {}]

OpsIdle ==
    /\ mop = "none" /\ margs = NoArgs /\ mpc = "idle" /\ mlog = <<>> /\ mresp = NoMResp
    /\ remote = NoRemote /\ lastCreated = <<>> /\ upFile = "none" /\ mret = NoMRet

ConcIdle ==
    /\ cop = <<>> /\ cpc = <<>> /\ cpageToken = <<>> /\ cfiles = <<>> /\ cindex = <<>>
    /\ cwritten = <<>> /\ cgot = <<>> /\ cret = <<>> /\ ctrashed = {}

----------------------------------------------------------------------------
(* SpecPath: buildPath stepped through its loop *)

InitPath ==
    /\ resolver \in {"ListFiles", "ListFilesInFolder"}
    /\ \E inp \in PathInputs : foldersResp = inp[1] /\ parentIDs = inp[2]
    /\ i = 0 /\ currentID = <<>> /\ visited = {} /\ pathParts = <<>>
    /\ ppc = "entry" /\ result = <<>>
    /\ ListIdle /\ XferIdle /\ OpsIdle /\ ConcIdle

LoopState == [i |-> i, currentID |-> currentID, visited |-> visited,
              pathParts |-> pathParts, brk |-> FALSE]

SetLoopState(s) ==
    /\ i' = s.i /\ currentID' = s.currentID
    /\ visited' = s.visited /\ pathParts' = s.pathParts

\* if len(parentIDs) == 0 { return "My Drive" }; otherwise set up the loop
BP_Enter ==
    /\ ppc = "entry"
    /\ IF Len(parentIDs) = 0
       THEN /\ result' = MyDrive
            /\ ppc' = "returned"
            /\ UNCHANGED <<i, currentID, visited, pathParts>>
       ELSE /\ SetLoopState(LoopInit(parentIDs))
            /\ ppc' = "loop"
            /\ UNCHANGED result
    /\ UNCHANGED <<resolver, foldersResp, parentIDs, listVars, xferVars, opsVars, concVars>>

\* one test of the loop condition and, when it holds, one run of the body
BP_Loop ==
    /\ ppc = "loop"
    /\ IF ~LoopCond(LoopState)
       THEN /\ ppc' = "after"
            /\ UNCHANGED <<i, currentID, visited, pathParts>>
       ELSE LET t == IF resolver = "ListFiles"
                     THEN LF_Body(LoopState, BuildFolderMap(foldersResp), foldersResp)
                     ELSE LFF_Body(LoopState, BuildFolderMap(foldersResp),
                                   BuildFolderParentMap(foldersResp))
            IN  /\ SetLoopState(t)
                /\ ppc' = IF t.brk THEN "after" ELSE "loop"
    /\ UNCHANGED <<resolver, foldersResp, parentIDs, result, listVars, xferVars, opsVars, concVars>>

\* the two return statements after the loop
BP_Return ==
    /\ ppc = "after"
    /\ result' = PathString(pathParts)
    /\ ppc' = "returned"
    /\ UNCHANGED <<resolver, foldersResp, parentIDs, i, currentID, visited, pathParts,
                   listVars, xferVars, opsVars, concVars>>

NextPath == BP_Enter \/ BP_Loop \/ BP_Return

SpecPath == InitPath /\ [][NextPath]_vars /\ WF_vars(NextPath)

----------------------------------------------------------------------------
(* Vocabulary of the path-resolution claims, read off the folder listing   *)
(* itself and not off the resolver's intermediate maps.                    *)

Indexed(id) == \E n \in 1..Len(foldersResp) : foldersResp[n].Id = id

EntryOf(id) == foldersResp[CHOOSE n \in 1..Len(foldersResp) : foldersResp[n].Id = id]

Nowhere == <<"$">>      \* stands for "no container above"

\* the first parent of a container of the listing
Up(id) ==
    IF Indexed(id) /\ Len(EntryOf(id).Parents) > 0 THEN EntryOf(id).Parents[1]
    ELSE Nowhere

RECURSIVE Walk(_, _)
Walk(n, id) == IF n = 0 THEN id ELSE Walk(n - 1, Up(id))

\* the chain that starts at id returns to id after exactly k steps
CycleAt(id, k) ==
    /\ Walk(k, id) = id
    /\ \A m \in 1..(k - 1) : Walk(m, id) # id
    /\ \A m \in 0..(k - 1) : Indexed(Walk(m, id))

\* the first n containers above (and including) id exist and are distinct
DistinctChain(id, n) ==
    /\ \A m \in 0..(n - 1) : Indexed(Walk(m, id))
    /\ \A m1, m2 \in 0..(n - 1) : m1 # m2 => Walk(m1, id) # Walk(m2, id)

RECURSIVE SplitAcc(_, _, _)
SplitAcc(s, cur, acc) ==
    IF s = <<>> THEN Append(acc, cur)
    ELSE IF Head(s) = "/" THEN SplitAcc(Tail(s), <<>>, Append(acc, cur))
    ELSE SplitAcc(Tail(s), Append(cur, Head(s)), acc)

\* the "/"-separated segments of a path string
Split(s) == SplitAcc(s, <<>>, <<>>)

\* number of segments after the root token
SegmentsAfterRoot(path) == Len(Split(path)) - 1

Returned == ppc = "returned"
StartsOnCycle(k) == parentIDs # <<>> /\ CycleAt(parentIDs[1], k)

----------------------------------------------------------------------------
(* C1 *)

\* C1 as stated: started on a cycle of length k <= 10, path resolution returns
\* a path with at most k-1 segments after "My Drive".
C1_AtMostKMinus1 ==
    \A k \in 1..MaxLevels :
        (Returned /\ StartsOnCycle(k)) => SegmentsAfterRoot(result) <= k - 1

\* C1 (amended): started on a parent chain that forms a cycle of length
\* k <= 10, path resolution runs the loop body at most k times, terminates,
\* and returns "My Drive" followed by at most k segments.
C1_CycleTerminatesWithAtMostK ==
    /\ [](\A k \in 1..MaxLevels :
            StartsOnCycle(k) =>
                /\ i <= k
                /\ Cardinality(visited) <= k
                /\ Returned => /\ HasPrefix(result, MyDrive)
                               /\ SegmentsAfterRoot(result) <= k)
    /\ <>Returned

\* a resolution started on a cycle of the full length 10 has returned, with 10 segments
C1_Witness ==
    /\ Returned /\ StartsOnCycle(MaxLevels)
    /\ SegmentsAfterRoot(result) = MaxLevels

----------------------------------------------------------------------------
(* C2 *)

DeepStart == parentIDs # <<>> /\ DistinctChain(parentIDs[1], MaxLevels + 1)

\* names of the first 10 containers above the object, topmost first
FirstTenNames == [m \in 1..MaxLevels |-> EntryOf(Walk(MaxLevels - m, parentIDs[1])).Name]

\* C2: for an object whose first-parent chain is acyclic, present in the index
\* and more than 10 containers deep, the returned path is "My Drive" followed
\* by exactly the names of the 10 nearest containers, the topmost of them
\* first and the immediate parent last.
C2_DeepChainFirstTen ==
    (Returned /\ DeepStart) => Split(result) = <<MyDrive>> \o FirstTenNames

\* a resolution of an acyclic chain of more than 10 containers has returned
C2_Witness ==
    /\ Returned /\ DeepStart
    /\ \A k \in 1..(MaxChain + 1) : ~CycleAt(parentIDs[1], k)
    /\ Split(result)[MaxLevels + 1] = EntryOf(parentIDs[1]).Name

----------------------------------------------------------------------------
(* C3 *)

\* C3: an empty parent list resolves to exactly "My Drive", and every
\* resolved path is non-empty and begins with "My Drive".
C3_RootTokenAlways ==
    Returned =>
        /\ (parentIDs = <<>> => result = MyDrive)
        /\ result # <<>>
        /\ HasPrefix(result, MyDrive)

\* an empty parent list has been resolved against a non-empty folder index
C3_Witness == Returned /\ parentIDs = <<>> /\ foldersResp # <<>> /\ result = MyDrive

----------------------------------------------------------------------------
(* The remote service as the enumeration calls see it (Files.List)         *)

\* remote objects of the model corpora
Object(id, name, mime, size, parents, trashed) ==
    [Id |-> id, Name |-> name, MimeType |-> mime, Size |-> size,
     WebViewLink |-> <<"v", "/">> \o id, Parents |-> parents, Trashed |-> trashed]

FolderA == Object(IdA, <<"A">>, FolderMime, 0, <<>>, FALSE)
FolderB == Object(IdB, <<"B">>, FolderMime, 0, <<>>, FALSE)

ItemKinds == {"inA", "rootZero", "folderInA", "inBandA", "rootFile", "trashedInA", "again"}

ItemId(n) == <<"f">> \o Dec(n)

Item(n, kind) ==
    LET id == ItemId(n)
        nm == <<"F">> \o Dec(n)
    IN  CASE kind = "inA"        -> Object(id, nm, "application/pdf", 10, <<IdA>>, FALSE)
          [] kind = "rootZero"   -> Object(id, nm, "text/plain", 0, <<>>, FALSE)
          [] kind = "folderInA"  -> Object(id, nm, FolderMime, 4, <<IdA>>, FALSE)
          [] kind = "inBandA"    -> Object(id, nm, "image/png", 5, <<IdB, IdA>>, FALSE)
          [] kind = "rootFile"   -> Object(id, nm, "text/plain", 3, <<>>, FALSE)
          [] kind = "trashedInA" -> Object(id, nm, "application/pdf", 8, <<IdA>>, TRUE)

\* kind "again": the backend lists its first item once more at this position
ItemAt(ks, n) ==
    IF ks[n] # "again" THEN Item(n, ks[n])
    ELSE Item(1, IF ks[1] = "again" THEN "inA" ELSE ks[1])

ItemSeqs(len) == {[n \in 1..len |-> ItemAt(ks, n)] : ks \in [1..len -> ItemKinds]}

\* containers A, B; files F1 (in A, 10 bytes), F2 (no parent, 0 bytes), F3 (in A, container-typed)
ExampleCorpus ==
    <<FolderA, FolderB, Item(1, "inA"), Item(2, "rootZero"), Item(3, "folderInA")>>

Corpora ==
    {<<FolderA, FolderB>> \o items : items \in UNION {ItemSeqs(len) : len \in 0..MaxItems}}
    \cup {ExampleCorpus}

\* how many items the backend puts on a page: it may return partial pages,
\* and never more than the requested pageSize
ChunkChoices(pageSize) == (1..MaxChunk) \cup {pageSize}

Min(a, b) == IF a <= b THEN a ELSE b

RangeOf(seq) == {seq[n] : n \in 1..Len(seq)}

\* the q parameter of Files.List, by what the service does with it
Query(mime, parent, untrashed) == [mime |-> mime, parent |-> parent, untrashed |-> untrashed]

Matches(o, q) ==
    /\ q.mime # "" => o.MimeType = q.mime
    /\ q.parent # <<>> => q.parent \in RangeOf(o.Parents)
    /\ q.untrashed => ~o.Trashed

\* continuation cursors: "t" followed by the offset of the next item
DigitVal(c) == CHOOSE d \in 0..9 : Digits[d + 1] = c

RECURSIVE ParseDec(_)
ParseDec(ds) ==
    IF Len(ds) = 0 THEN 0
    ELSE 10 * ParseDec(SubSeq(ds, 1, Len(ds) - 1)) + DigitVal(ds[Len(ds)])

TokenAt(offset) == <<"t">> \o Dec(offset)
OffsetOf(token) == IF token = <<>> THEN 0 ELSE ParseDec(Tail(token))

\* one page of Files.List for request req, with the backend putting chunk items on a page
ServerPage(objs, req, chunk) ==
    LET matching == SelectSeq(objs, LAMBDA o : Matches(o, req.q))
        from == OffsetOf(req.pageToken)
        upto == Min(from + Min(chunk, req.pageSize), Len(matching))
    IN  [files |-> SubSeq(matching, from + 1, upto),
         next |-> IF upto < Len(matching) THEN TokenAt(upto) ELSE <<>>]

----------------------------------------------------------------------------
(* ListFiles / ListFilesInFolder *)

\* Q("mimeType='application/vnd.google-apps.folder'").PageSize(1000)
FoldersRequest ==
    [kind |-> "folders", q |-> Query(FolderMime, <<>>, FALSE),
     pageSize |-> FolderPageSize, pageToken |-> <<>>]

\* ListFiles sets no q; ListFilesInFolder: query := "trashed=false", or
\* "'<id>' in parents and trashed=false" when parentFolderID != ""
FilesQuery(o, pid) ==
    IF o = "ListFiles" THEN Query("", <<>>, FALSE)
    ELSE IF pid # <<>> THEN Query("", pid, TRUE)
    ELSE Query("", <<>>, TRUE)

\* PageSize(MaxPageSize); if pageToken != "" { call = call.PageToken(pageToken) }
FilesRequestNoToken(q, token) ==
    [kind |-> "files", q |-> q, pageSize |-> MaxPageSize, pageToken |-> <<>>]
FilesRequest(q, token) ==
    [kind |-> "files", q |-> q, pageSize |-> MaxPageSize, pageToken |-> token]

\* if item.Size == 0 || item.MimeType == "application/vnd.google-apps.folder" { continue }
KeepNonEmpty(item) == ~(item.Size = 0)
Keep(item) == ~(item.Size = 0 \/ item.MimeType = FolderMime)

\* FileInfo{ID: item.Id, ..., FolderPath: buildPath(item.Parents)}
FileInfo(item, path) ==
    [ID |-> item.Id, Name |-> item.Name, MimeType |-> item.MimeType, Size |-> item.Size,
     WebViewLink |-> item.WebViewLink, Parents |-> item.Parents, FolderPath |-> path]

\* files = append(files, FileInfo{...})
AppendFileInFront(fs, info) == <<info>> \o fs
AppendFile(fs, info) == Append(fs, info)

\* the buildPath closure of the running call: it reads the folderMap (and
\* foldersResp / folderParentMap) captured before the page loop
buildPathRefreshed(pIDs) ==
    LET now == ServerPage(corpus, FoldersRequest, folderChunk).files
    IN  IF op = "ListFiles" THEN LF_buildPath(pIDs, BuildFolderMap(now), now)
        ELSE LFF_buildPath(pIDs, BuildFolderMap(now), BuildFolderParentMap(now))
buildPath(pIDs) ==
    IF op = "ListFiles" THEN LF_buildPath(pIDs, folderMap, folderFiles)
    ELSE LFF_buildPath(pIDs, folderMap, folderParentMap)

\* for _, item := range r.Files { ... }
RECURSIVE ProcessItems(_, _)
ProcessItems(fs, items) ==
    IF Len(items) = 0 THEN fs
    ELSE LET item == Head(items)
         IN  IF Keep(item)
             THEN ProcessItems(AppendFile(fs, FileInfo(item, buildPath(item.Parents))),
                               Tail(items))
             ELSE ProcessItems(fs, Tail(items))

\* return nil, fmt.Errorf("unable to retrieve ...: %w", err)
ErrorReturnKeepsFiles(fs, msg) == [files |-> fs, isNil |-> FALSE, err |-> msg, returned |-> TRUE]
ErrorReturn(fs, msg) == [files |-> <<>>, isNil |-> TRUE, err |-> msg, returned |-> TRUE]

\* return files, nil
OkReturn(fs) == [files |-> fs, isNil |-> FALSE, err |-> "", returned |-> TRUE]

Calls == {<<"ListFiles", <<>>>>} \cup
         {<<"ListFilesInFolder", pid>> : pid \in {<<>>, IdA, IdB, IdGhost}}

Init ==
    /\ corpus \in Corpora
    /\ folderChunk \in ChunkChoices(FolderPageSize)
    /\ fileChunk \in ChunkChoices(MaxPageSize)
    /\ \E c \in Calls : op = c[1] /\ parentFolderID = c[2]
    /\ pc = "start" /\ pageToken = <<>> /\ files = <<>>
    /\ folderMap = <<>> /\ folderParentMap = <<>> /\ folderFiles = <<>>
    /\ requests = <<>> /\ responses = <<>>
    /\ ret = [files |-> <<>>, isNil |-> FALSE, err |-> "", returned |-> FALSE]
    /\ PathIdle /\ XferIdle /\ OpsIdle /\ ConcIdle

FileRequests == SelectSeq(requests, LAMBDA r : r.kind = "files")

\* foldersResp, err := foldersCall.Do(); the request succeeds and the index is built
ListFolders ==
    /\ pc = "start"
    /\ LET r == ServerPage(corpus, FoldersRequest, folderChunk)
       IN  /\ requests' = Append(requests, FoldersRequest)
           /\ responses' = Append(responses,
                    [kind |-> "folders", ok |-> TRUE, files |-> r.files, next |-> r.next])
           /\ folderFiles' = r.files
           /\ folderMap' = BuildFolderMap(r.files)
           /\ folderParentMap' = IF op = "ListFilesInFolder"
                                 THEN BuildFolderParentMap(r.files) ELSE <<>>
    /\ pc' = "pages"
    /\ UNCHANGED <<corpus, folderChunk, fileChunk, op, parentFolderID, pageToken, files, ret,
                   pathVars, xferVars, opsVars, concVars>>

\* where control goes when foldersCall.Do() fails: the function returns
AfterFoldersErrorContinues == "pages"
AfterFoldersError == "done"

\* foldersCall.Do() fails
ListFoldersFails ==
    /\ pc = "start"
    /\ requests' = Append(requests, FoldersRequest)
    /\ responses' = Append(responses,
            [kind |-> "folders", ok |-> FALSE, files |-> <<>>, next |-> <<>>])
    /\ ret' = ErrorReturn(files, "unable to retrieve folders")
    /\ pc' = AfterFoldersError
    /\ UNCHANGED <<corpus, folderChunk, fileChunk, op, parentFolderID, pageToken, files,
                   folderMap, folderParentMap, folderFiles, pathVars, xferVars, opsVars, concVars>>

\* pageToken = r.NextPageToken; if pageToken == "" { break }
LoopExitsOnEmptyPage(r) == r.next = <<>> \/ r.files = <<>>
LoopExits(r) == r.next = <<>>

\* one iteration of the page loop whose call.Do() succeeds
FetchPage ==
    /\ pc = "pages"
    /\ Len(FileRequests) < MaxRequests
    /\ LET req == FilesRequest(FilesQuery(op, parentFolderID), pageToken)
           r == ServerPage(corpus, req, fileChunk)
           fs == ProcessItems(files, r.files)
       IN  /\ requests' = Append(requests, req)
           /\ responses' = Append(responses,
                    [kind |-> "files", ok |-> TRUE, files |-> r.files, next |-> r.next])
           /\ files' = fs
           /\ pageToken' = r.next
           /\ IF LoopExits(r)
              THEN ret' = OkReturn(fs) /\ pc' = "done"
              ELSE UNCHANGED <<ret, pc>>
    /\ UNCHANGED <<corpus, folderChunk, fileChunk, op, parentFolderID,
                   folderMap, folderParentMap, folderFiles, pathVars, xferVars, opsVars, concVars>>

\* one iteration of the page loop whose call.Do() fails
FetchPageFails ==
    /\ pc = "pages"
    /\ Len(FileRequests) < MaxRequests
    /\ requests' = Append(requests, FilesRequest(FilesQuery(op, parentFolderID), pageToken))
    /\ responses' = Append(responses,
            [kind |-> "files", ok |-> FALSE, files |-> <<>>, next |-> <<>>])
    /\ ret' = ErrorReturn(files, "unable to retrieve files")
    /\ pc' = "done"
    /\ UNCHANGED <<corpus, folderChunk, fileChunk, op, parentFolderID, pageToken, files,
                   folderMap, folderParentMap, folderFiles, pathVars, xferVars, opsVars, concVars>>

Next == ListFolders \/ ListFoldersFails \/ FetchPage \/ FetchPageFails

Spec == Init /\ [][Next]_vars

----------------------------------------------------------------------------
(* The enumeration against a backend that changes during the call, or that *)
(* never ends its cursor chain                                             *)

BackendCorpora ==
    {ExampleCorpus, <<FolderA, FolderB>>,
     <<FolderA, FolderB, Item(1, "inA"), Item(2, "inA")>>}

\* a backend that puts no item on a file page answers every request with an
\* empty page and the cursor it was given: its cursor chain never ends
InitBackend ==
    /\ corpus \in BackendCorpora
    /\ folderChunk \in ChunkChoices(FolderPageSize)
    /\ fileChunk \in {0} \cup ChunkChoices(MaxPageSize)
    /\ \E c \in Calls : op = c[1] /\ parentFolderID = c[2]
    /\ pc = "start" /\ pageToken = <<>> /\ files = <<>>
    /\ folderMap = <<>> /\ folderParentMap = <<>> /\ folderFiles = <<>>
    /\ requests = <<>> /\ responses = <<>>
    /\ ret = [files |-> <<>>, isNil |-> FALSE, err |-> "", returned |-> FALSE]
    /\ PathIdle /\ XferIdle /\ OpsIdle /\ ConcIdle

\* another client renames folder A on the backend while the call is in its page loop
BackendRenames ==
    /\ pc = "pages"
    /\ corpus[1] = FolderA
    /\ corpus' = [corpus EXCEPT ![1].Name = <<"Z">>]
    /\ UNCHANGED <<folderChunk, fileChunk, op, parentFolderID, pc, pageToken, files,
                   folderMap, folderParentMap, folderFiles, requests, responses, ret,
                   pathVars, xferVars, opsVars, concVars>>

NextBackend == Next \/ BackendRenames

\* every call.Do() returns, with a response or with an error
SpecBackend == InitBackend /\ [][NextBackend]_vars /\ WF_vars(Next)

\* an enumeration call, or one run of its path resolver on any folder listing
InitEnum == InitPath \/ Init
NextEnum == NextPath \/ Next
SpecEnum == InitEnum /\ [][NextEnum]_vars

----------------------------------------------------------------------------
(* Vocabulary of the enumeration claims, read off the request/response log *)

FileResponses == SelectSeq(responses, LAMBDA r : r.kind = "files")

RECURSIVE ConcatFiles(_)
ConcatFiles(rs) == IF Len(rs) = 0 THEN <<>> ELSE Head(rs).files \o ConcatFiles(Tail(rs))

\* every object the backend returned to the file-listing requests, in order
ReturnedItems == ConcatFiles(FileResponses)

Succeeded == pc = "done" /\ ret.returned /\ ret.err = ""

Occurrences(seq, id) == Cardinality({n \in 1..Len(seq) : seq[n].Id = id})
Records(seq, id) == Cardinality({n \in 1..Len(seq) : seq[n].ID = id})

IsContainer(o) == o.MimeType = FolderMime
Emittable(o) == ~IsContainer(o) /\ o.Size # 0

MyDriveA == MyDrive \o <<"/", "A">>

ExampleReturned ==
    /\ Len(ReturnedItems) = Len(ExampleCorpus)
    /\ RangeOf(ReturnedItems) = RangeOf(ExampleCorpus)
    /\ {IdA, IdB} \subseteq IdsOf(folderFiles)

----------------------------------------------------------------------------
(* C4 *)

\* C4: a successful enumeration returns exactly one FileInfo for each returned
\* object that is neither container-typed nor of size 0, and none for any
\* other object; with containers A, B and files F1 (in A, 10 bytes), F2 (0
\* bytes) and F3 (container-typed) returned, the output is exactly [F1] with
\* FolderPath "My Drive/A".
C4_FilterExact ==
    Succeeded =>
        /\ \A o \in RangeOf(ReturnedItems) :
              Records(ret.files, o.Id) =
                  IF Emittable(o) THEN Occurrences(ReturnedItems, o.Id) ELSE 0
        /\ \A f \in RangeOf(ret.files) :
              \E o \in RangeOf(ReturnedItems) :
                  /\ f.ID = o.Id /\ f.Name = o.Name /\ f.MimeType = o.MimeType
                  /\ f.Size = o.Size /\ f.Parents = o.Parents
                  /\ f.WebViewLink = o.WebViewLink
        /\ ExampleReturned =>
              ret.files = <<FileInfo(ExampleCorpus[3], MyDriveA)>>

\* the example backend has been enumerated over more than one page
C4_Witness ==
    /\ Succeeded /\ corpus = ExampleCorpus /\ ExampleReturned
    /\ Len(FileRequests) > 1
    /\ Len(ret.files) = 1 /\ ret.files[1].FolderPath = MyDriveA

----------------------------------------------------------------------------
(* C5 *)

\* C5: the first file-listing request carries no page token, every later one
\* carries exactly the nextPageToken of the response before it, every request
\* uses page size 100, no request follows a response with an empty
\* nextPageToken, and so a successful call has fetched every page of the
\* listing exactly once.
C5_CursorChain ==
    /\ Len(FileRequests) = Len(FileResponses)
    /\ \A n \in 1..Len(FileRequests) :
          /\ FileRequests[n].pageSize = MaxPageSize
          /\ n = 1 => FileRequests[n].pageToken = <<>>
          /\ n > 1 => /\ FileResponses[n - 1].ok
                      /\ FileResponses[n - 1].next # <<>>
                      /\ FileRequests[n].pageToken = FileResponses[n - 1].next
    /\ \A n1, n2 \in 1..Len(FileRequests) :
          n1 # n2 => FileRequests[n1].pageToken # FileRequests[n2].pageToken
    /\ Succeeded =>
          ReturnedItems =
              SelectSeq(corpus, LAMBDA o : Matches(o, FilesQuery(op, parentFolderID)))

\* a call has succeeded after following at least two continuation cursors
C5_Witness ==
    /\ Succeeded /\ Len(FileRequests) >= 3
    /\ FileRequests[3].pageToken = FileResponses[2].next

----------------------------------------------------------------------------
(* C6 *)

EmittableReturned == SelectSeq(ReturnedItems, Emittable)

\* C6: the records of a successful enumeration are the emittable objects of
\* the concatenated pages, in page order and in the order within each page.
C6_BackendOrder ==
    Succeeded =>
        /\ Len(ret.files) = Len(EmittableReturned)
        /\ \A n \in 1..Len(ret.files) : ret.files[n].ID = EmittableReturned[n].Id

\* two records coming from two different pages have been returned
C6_Witness ==
    /\ Succeeded /\ Len(ret.files) >= 2 /\ Len(FileResponses) >= 2
    /\ \E n \in 1..Len(FileResponses[1].files) :
          FileResponses[1].files[n].Id = ret.files[1].ID
    /\ \E n \in 1..Len(FileResponses[2].files) :
          FileResponses[2].files[n].Id = ret.files[2].ID
    /\ ret.files[1].ID # ret.files[2].ID

----------------------------------------------------------------------------
(* C7 *)

\* C7: when a file-page request fails, the call has returned an error and a
\* nil result (nothing accumulated from earlier pages), and the failed
\* request is the last request of the call.
C7_PageErrorDiscardsAll ==
    \A n \in 1..Len(responses) :
        (responses[n].kind = "files" /\ ~responses[n].ok) =>
            /\ n = Len(requests)
            /\ pc = "done" /\ ret.returned
            /\ ret.err = "unable to retrieve files"
            /\ ret.isNil /\ ret.files = <<>>
            /\ ~ENABLED Next

\* a page request failed after earlier pages had contributed records
C7_Witness ==
    /\ pc = "done" /\ ret.err = "unable to retrieve files" /\ ret.isNil
    /\ Len(FileRequests) >= 2
    /\ files # <<>>

----------------------------------------------------------------------------
(* C8 *)

ContainerIds == {corpus[n].Id : n \in {m \in 1..Len(corpus) : IsContainer(corpus[m])}}

\* C8: once the folder listing succeeded, the keys of the folder index are
\* exactly the identifiers of all container-typed objects of the backend.
C8_IndexCoversAllContainers ==
    (pc # "start" /\ responses[1].ok) => DOMAIN folderMap = ContainerIds

----------------------------------------------------------------------------
(* C9 *)

\* C9: ListFilesInFolder with a non-empty identifier returns only objects
\* having it among their parents, and with an empty identifier only
\* root-level objects.
C9_FolderRestricted ==
    (Succeeded /\ op = "ListFilesInFolder") =>
        \A f \in RangeOf(ret.files) :
            IF parentFolderID # <<>> THEN parentFolderID \in RangeOf(f.Parents)
            ELSE f.Parents = <<>>

----------------------------------------------------------------------------
(* Transfers: StreamFile, DownloadFile, ExportWorkspaceDocument,           *)
(* ExportWorkspaceDocumentToFile, DownloadRevision, PartialDownloadFile,   *)
(* PartialStreamFile, PartialDownloadRevision                              *)

ByteVals == {-1, 0, 50, 100, 1023, 2047}
ObjSizes == {0, 2048}
FileIDs == {<<>>, <<"f", "1">>}
RevisionIDs == {<<>>, <<"r", "1">>}
Formats == {<<>>, <<"p", "d", "f">>}
OutputPaths == {<<>>, <<"o", "u", "t">>}
Statuses == {200, 204, 206, 404, 416}

RangeOps == {"PartialDownloadFile", "PartialStreamFile", "PartialDownloadRevision"}
RevisionOps == {"DownloadRevision", "PartialDownloadRevision"}
ExportOps == {"ExportWorkspaceDocument", "ExportWorkspaceDocumentToFile"}
ToFileOps == {"DownloadFile", "ExportWorkspaceDocumentToFile"}
TransferOps == RangeOps \cup RevisionOps \cup ExportOps \cup ToFileOps \cup {"StreamFile"}

\* the operation a wrapper delegates to
Inner(t) ==
    CASE t = "DownloadFile" -> "StreamFile"
      [] t = "ExportWorkspaceDocumentToFile" -> "ExportWorkspaceDocument"
      [] t = "PartialStreamFile" -> "PartialDownloadFile"
      [] OTHER -> t

\* PartialStreamFile: PartialDownloadOptions{StartByte: startByte, EndByte: endByte}
StreamOpts(startByte, endByte) == [StartByte |-> startByte, EndByte |-> endByte]

\* the two range checks of PartialDownloadFile / PartialDownloadRevision
RangeErrorNoOrderCheck(o) ==
    IF o.StartByte < 0 \/ o.EndByte < 0 THEN "byte positions cannot be negative"
    ELSE ""
RangeError(o) ==
    IF o.StartByte < 0 \/ o.EndByte < 0 THEN "byte positions cannot be negative"
    ELSE IF o.StartByte > o.EndByte
         THEN "start byte must be less than or equal to end byte"
    ELSE ""

\* the checks before the request, in source order; "" when all pass
ValidationError(t, fid, rid, fm, o) ==
    IF fid = <<>> THEN "file ID cannot be empty"
    ELSE IF Inner(t) \in RevisionOps /\ rid = <<>> THEN "revision ID cannot be empty"
    ELSE IF Inner(t) = "ExportWorkspaceDocument" /\ fm = <<>>
         THEN "export format cannot be empty"
    ELSE IF Inner(t) \in RangeOps THEN RangeError(o)
    ELSE ""

\* rangeHeader := fmt.Sprintf("bytes=%d-%d", opts.StartByte, opts.EndByte)
BytesEq == <<"b", "y", "t", "e", "s", "=">>
RangeHeaderSwapped(o) == BytesEq \o Dec(o.EndByte) \o <<"-">> \o Dec(o.StartByte)
RangeHeader(o) == BytesEq \o Dec(o.StartByte) \o <<"-">> \o Dec(o.EndByte)

\* dc.service.Revisions.Get(fileID, fileID) in PartialDownloadFile,
\* dc.service.Revisions.Get(fileID, revisionID) in PartialDownloadRevision
RangeRequest(t, fid, rid, o) ==
    [api |-> "Revisions.Get",
     fileId |-> fid,
     revisionId |-> IF t = "PartialDownloadRevision" THEN rid ELSE fid,
     Range |-> RangeHeader(o)]

\* the request each operation downloads from
TransferRequest(t, fid, rid, fm, o) ==
    CASE Inner(t) = "StreamFile" -> [api |-> "Files.Get", fileId |-> fid]
      [] Inner(t) = "ExportWorkspaceDocument" ->
            [api |-> "Files.Export", fileId |-> fid, mimeType |-> fm]
      [] Inner(t) = "DownloadRevision" ->
            [api |-> "Revisions.Get", fileId |-> fid, revisionId |-> rid]
      [] OTHER -> RangeRequest(Inner(t), fid, rid, o)

\* the response of the service to a request with the given status
ServerBody(status, o, size) ==
    IF status = StatusPartialContent /\ o.StartByte < size
    THEN [off |-> o.StartByte, len |-> Min(o.EndByte, size - 1) - o.StartByte + 1]
    ELSE IF status = StatusOK THEN [off |-> 0, len |-> size]
    ELSE [off |-> 0, len |-> 0]

\* resp.StatusCode != http.StatusPartialContent && resp.StatusCode != http.StatusOK
StatusRejected(status) == status # StatusPartialContent /\ status # StatusOK

\* resp.StatusCode != http.StatusOK
StatusRejectedAcceptsAll(status) == FALSE
StatusRejectedFull(status) == status # StatusOK

\* the status check of the operation
Rejected(t, status) ==
    IF Inner(t) \in RangeOps THEN StatusRejected(status) ELSE StatusRejectedFull(status)

\* the options the call works with
CallOpts == IF top = "PartialStreamFile" THEN StreamOpts(opts.StartByte, opts.EndByte)
            ELSE opts

\* fmt.Errorf("unable to ...: %w", err) after Download()
DownloadErrMsg(t) ==
    CASE Inner(t) = "StreamFile" -> "unable to download file"
      [] Inner(t) = "ExportWorkspaceDocument" -> "unable to export document"
      [] OTHER -> "unable to download revision"

\* fmt.Errorf("unable to ...: %w", err) after io.Copy
CopyErrMsg(t) ==
    CASE Inner(t) = "StreamFile" -> "unable to stream file content"
      [] Inner(t) = "ExportWorkspaceDocument" -> "unable to write exported content"
      [] OTHER -> "unable to write revision content"

\* DownloadFile / ExportWorkspaceDocumentToFile wrapping the inner error
WrapMsg(t) == IF t = "DownloadFile" THEN "unable to download file"
              ELSE "unable to export document"

TReturn(n, msg) == [written |-> n, err |-> msg, chain |-> <<>>, returned |-> TRUE]

\* return n, fmt.Errorf(msg + ": %w", cause)
TReturnWrappedDropsCount(n, msg, chain) ==
    [written |-> 0, err |-> msg, chain |-> chain, returned |-> TRUE]
TReturnWrapped(n, msg, chain) ==
    [written |-> n, err |-> msg, chain |-> chain, returned |-> TRUE]

\* written, err := io.Copy(w, resp.Body); return written, fmt.Errorf("...: %w", err)
CopyErrorNotWrapped(t, n, cause) == TReturn(n, CopyErrMsg(t))
CopyError(t, n, cause) == TReturnWrapped(n, CopyErrMsg(t), <<cause>>)

\* what the called operation returns when the inner operation returns r:
\* the to-file wrappers wrap a non-nil error and pass the count through
Outer(t, r) ==
    IF t \in ToFileOps /\ r.err # ""
    THEN TReturnWrapped(r.written, WrapMsg(t), <<r.err>> \o r.chain)
    ELSE r

\* defer resp.Body.Close()
CloseBodyLeaks(b) == b
CloseBody(b) == IF b = "open" THEN "closed" ELSE b

\* defer out.Close()
CloseOutLeaks(f) == f
CloseOut(f) == IF f = "open" THEN "closed" ELSE f

\* the operation returns r: deferred closes run
Return(r, body) ==
    /\ tret' = Outer(top, r)
    /\ tpc' = "done"
    /\ bodyState' = CloseBody(body)
    /\ outState' = CloseOut(outState)

\* bytes one Read of io.Copy delivers from a body with n bytes left
ChunkLen(n) == (n + 1) \div 2

\* number of bytes the writer has taken
RECURSIVE SinkBytes(_)
SinkBytes(sk) == IF sk = <<>> THEN 0 ELSE sk[1].len + SinkBytes(Tail(sk))

\* the file at outputPath before the call: absent, or longer than any download
PriorFiles == {NoFile, [NoFile EXCEPT !.exists = TRUE, !.len = 4096]}

\* out, err := os.Create(outputPath): the file is created, or truncated if it
\* exists (replaced records that an existing file was opened)
CreateKeepsContent(f) == [exists |-> TRUE, len |-> f.len, replaced |-> f.exists]
Create(f) == [exists |-> TRUE, len |-> 0, replaced |-> f.exists]

\* out.Write of n bytes at the file offset `at`, when the writer is the output file
WriteOut(t, f, at, n) ==
    IF t \in ToFileOps /\ at + n > f.len THEN [f EXCEPT !.len = at + n] ELSE f

InitTransfer ==
    /\ top \in TransferOps
    /\ fileID \in FileIDs
    /\ revisionID \in IF top \in RevisionOps THEN RevisionIDs ELSE {<<>>}
    /\ opts \in IF top \in RangeOps THEN [StartByte : ByteVals, EndByte : ByteVals]
                ELSE {[StartByte |-> 0, EndByte |-> 0]}
    /\ format \in IF top \in ExportOps THEN Formats ELSE {<<>>}
    /\ outputPath \in IF top \in ToFileOps THEN OutputPaths ELSE {<<>>}
    /\ objSize \in ObjSizes
    /\ ctx = "live"
    /\ tpc = IF top \in ToFileOps THEN "open" ELSE "call"
    /\ netlog = <<>> /\ resp = NoResp /\ bodyState = "none" /\ outState = "none"
    /\ written = 0 /\ copyOutcome = "none" /\ sink = <<>> /\ tret = NoTRet
    /\ disk \in IF top \in ToFileOps /\ outputPath # <<>> THEN PriorFiles ELSE {NoFile}
    /\ PathIdle /\ ListIdle /\ OpsIdle /\ ConcIdle

\* DownloadFile / ExportWorkspaceDocumentToFile: outputPath is empty, or
\* os.MkdirAll or os.Create fails
T_OpenFails ==
    /\ tpc = "open"
    /\ \E msg \in IF outputPath = <<>> THEN {"output path cannot be empty"}
                  ELSE {"unable to create output directory", "unable to create output file"} :
          tret' = IF outputPath = <<>> THEN TReturn(0, msg)
                  ELSE TReturnWrapped(0, msg, <<"os error">>)
    /\ tpc' = "done"
    /\ UNCHANGED <<xferArgs, disk, ctx, netlog, resp, bodyState, outState, written, copyOutcome,
                   sink, pathVars, listVars, opsVars, concVars>>

\* os.MkdirAll and os.Create succeed; defer out.Close(); the inner operation is called
T_Open ==
    /\ tpc = "open"
    /\ outputPath # <<>>
    /\ outState' = "open"
    /\ disk' = Create(disk)
    /\ tpc' = "call"
    /\ UNCHANGED <<xferArgs, ctx, netlog, resp, bodyState, written, copyOutcome,
                   sink, tret, pathVars, listVars, opsVars, concVars>>

\* the argument checks fail: return 0 and the error, nothing else happens
T_Reject ==
    /\ tpc = "call"
    /\ ValidationError(top, fileID, revisionID, format, CallOpts) # ""
    /\ Return(TReturn(0, ValidationError(top, fileID, revisionID, format, CallOpts)),
              bodyState)
    /\ UNCHANGED <<xferArgs, disk, ctx, netlog, resp, written, copyOutcome, sink,
                   pathVars, listVars, opsVars, concVars>>

\* the argument checks pass: build the call (with its Range header), Download()
T_Send ==
    /\ tpc = "call"
    /\ ValidationError(top, fileID, revisionID, format, CallOpts) = ""
    /\ netlog' = Append(netlog, TransferRequest(top, fileID, revisionID, format, CallOpts))
    /\ tpc' = "sent"
    /\ UNCHANGED <<xferArgs, disk, ctx, resp, bodyState, outState, written, copyOutcome, sink, tret,
                   pathVars, listVars, opsVars, concVars>>

\* the caller cancels the context while the request or the copy is under way
T_Cancel ==
    /\ tpc \in {"sent", "copy"}
    /\ ctx = "live"
    /\ ctx' = "cancelled"
    /\ UNCHANGED <<xferArgs, disk, tpc, netlog, resp, bodyState, outState, written, copyOutcome,
                   sink, tret, pathVars, listVars, opsVars, concVars>>

\* Download() returns an error
T_DownloadFails ==
    /\ tpc = "sent"
    /\ \E cause \in {"transport error"} \cup
                    (IF ctx = "cancelled" THEN {"context canceled"} ELSE {}) :
          Return(TReturnWrapped(0, DownloadErrMsg(top), <<cause>>), bodyState)
    /\ UNCHANGED <<xferArgs, disk, ctx, netlog, resp, written, copyOutcome, sink,
                   pathVars, listVars, opsVars, concVars>>

\* Download() returns a response; defer resp.Body.Close(); the status check follows
T_Response ==
    /\ tpc = "sent"
    /\ \E status \in Statuses :
          /\ resp' = [StatusCode |-> status, Body |-> ServerBody(status, CallOpts, objSize)]
          /\ IF Rejected(top, status)
             THEN Return(TReturn(0, "unexpected status code"), "open")
             ELSE /\ tpc' = "copy" /\ bodyState' = "open"
                  /\ UNCHANGED <<tret, outState>>
    /\ UNCHANGED <<xferArgs, disk, ctx, netlog, written, copyOutcome, sink, pathVars, listVars, opsVars, concVars>>

\* io.Copy: one Read of the body and the Write of what it delivered
T_Copy ==
    /\ tpc = "copy"
    /\ written < resp.Body.len
    /\ LET n == ChunkLen(resp.Body.len - written)
       IN  /\ sink' = Append(sink, [off |-> resp.Body.off + written, len |-> n])
           /\ disk' = WriteOut(top, disk, written, n)
           /\ written' = written + n
    /\ UNCHANGED <<xferArgs, ctx, tpc, netlog, resp, bodyState, outState, copyOutcome, tret,
                   pathVars, listVars, opsVars, concVars>>

\* io.Copy: Read reports the end of the body; return written, nil
T_CopyEnd ==
    /\ tpc = "copy"
    /\ written = resp.Body.len
    /\ copyOutcome' = "eof"
    /\ Return(TReturn(written, ""), bodyState)
    /\ UNCHANGED <<xferArgs, disk, ctx, netlog, resp, written, sink, pathVars, listVars, opsVars, concVars>>

\* io.Copy: Read fails, or Write fails after taking nw bytes of the chunk;
\* return written, fmt.Errorf("...: %w", err)
T_CopyFails ==
    /\ tpc = "copy"
    /\ \E kind \in {"readError", "writeError"} :
       \E nw \in {0, ChunkLen(resp.Body.len - written) \div 2} :
          /\ kind = "readError" => nw = 0
          /\ written < resp.Body.len \/ kind = "readError"
          /\ copyOutcome' = kind
          /\ sink' = IF nw > 0 THEN Append(sink, [off |-> resp.Body.off + written, len |-> nw])
                     ELSE sink
          /\ disk' = WriteOut(top, disk, written, nw)
          /\ written' = written + nw
          /\ Return(CopyError(top, written + nw, kind), bodyState)
    /\ UNCHANGED <<xferArgs, ctx, netlog, resp, pathVars, listVars, opsVars, concVars>>

\* io.Copy: Read on the body returns the context's error after the cancellation
T_CopyCancelled ==
    /\ tpc = "copy"
    /\ ctx = "cancelled"
    /\ copyOutcome' = "cancelled"
    /\ Return(CopyError(top, written, "context canceled"), bodyState)
    /\ UNCHANGED <<xferArgs, disk, ctx, netlog, resp, written, sink, pathVars, listVars, opsVars, concVars>>

NextTransfer ==
    \/ T_OpenFails \/ T_Open \/ T_Reject \/ T_Send \/ T_Cancel \/ T_DownloadFails
    \/ T_Response \/ T_Copy \/ T_CopyEnd \/ T_CopyFails \/ T_CopyCancelled

SpecTransfer == InitTransfer /\ [][NextTransfer]_vars

\* once the context is cancelled, a Read on the response body returns
SpecTransferLive == SpecTransfer /\ WF_vars(T_CopyCancelled)

----------------------------------------------------------------------------
(* Uploads, folders, trash, delete and metadata: UploadFile,               *)
(* UploadFileFromReader, CreateFolder, TrashFile, RestoreFile, DeleteFile, *)
(* GetExportLinks, IsWorkspaceDocument                                     *)

CreateOps == {"UploadFile", "UploadFileFromReader", "CreateFolder"}
UpdateOps == {"TrashFile", "RestoreFile"}
GetOps == {"GetExportLinks", "IsWorkspaceDocument"}
ObjectOps == CreateOps \cup UpdateOps \cup GetOps \cup {"DeleteFile"}

\* "application/vnd.google-apps."
WorkspacePrefix ==
    <<"a","p","p","l","i","c","a","t","i","o","n","/",
      "v","n","d",".","g","o","o","g","l","e","-","a","p","p","s",".">>
WorkspacePrefixLen == 28
FolderMimeChars == WorkspacePrefix \o <<"f","o","l","d","e","r">>
DocumentMime == WorkspacePrefix \o <<"d","o","c","u","m","e","n","t">>
PlainMime == <<"t","e","x","t","/","p","l","a","i","n">>

NameN == <<"n">>
PathDU == <<"d", "/", "u">>
NewId == <<"n", "e", "w">>
PdfLink == <<"pdf", "u1">>

\* the objects an identifier may name: a document with export links, a plain
\* file, a folder, and an object whose MIME type is the bare prefix
RemoteObjects ==
    {[exists |-> TRUE, trashed |-> FALSE, mimeType |-> m[1], exportLinks |-> m[2]] :
        m \in {<<DocumentMime, {PdfLink}>>, <<PlainMime, {}>>,
               <<FolderMimeChars, {}>>, <<WorkspacePrefix, {}>>}}

\* the arguments each operation is called with
ArgsOf(o) ==
    CASE o = "UploadFile" ->
            {[NoArgs EXCEPT !.filePath = fp, !.name = nm, !.parentFolderID = par,
                            !.content = ct] :
                fp \in {<<>>, PathDU}, nm \in {<<>>, NameN}, par \in {<<>>, IdA},
                ct \in {"text", "binary"}}
      [] o = "UploadFileFromReader" ->
            {[NoArgs EXCEPT !.reader = rd, !.name = nm, !.mimeType = mt,
                            !.parentFolderID = par] :
                rd \in {"nil", "r"}, nm \in {<<>>, NameN}, mt \in {"", "text/csv"},
                par \in {<<>>, IdA}}
      [] o = "CreateFolder" ->
            {[NoArgs EXCEPT !.name = nm, !.parentFolderID = par] :
                nm \in {<<>>, NameN}, par \in {<<>>, IdA}}
      [] OTHER -> {[NoArgs EXCEPT !.fileID = fid] : fid \in FileIDs}

\* the argument checks at the head of each operation; "" when all pass
MValidationErrorNoNameCheck(o, a) ==
    CASE o = "UploadFile" ->
            IF a.filePath = <<>> THEN "file path cannot be empty" ELSE ""
      [] o = "UploadFileFromReader" ->
            IF a.reader = "nil" THEN "reader cannot be nil" ELSE ""
      [] o = "CreateFolder" -> ""
      [] OTHER -> IF a.fileID = <<>> THEN "file ID cannot be empty" ELSE ""
MValidationError(o, a) ==
    CASE o = "UploadFile" ->
            IF a.filePath = <<>> THEN "file path cannot be empty" ELSE ""
      [] o = "UploadFileFromReader" ->
            IF a.reader = "nil" THEN "reader cannot be nil"
            ELSE IF a.name = <<>> THEN "file name cannot be empty"
            ELSE ""
      [] o = "CreateFolder" ->
            IF a.name = <<>> THEN "folder name cannot be empty" ELSE ""
      [] OTHER -> IF a.fileID = <<>> THEN "file ID cannot be empty" ELSE ""

\* filepath.Base for a path without trailing separators
LastSlash(path) ==
    LET at == {n \in 1..Len(path) : path[n] = "/"}
    IN  IF at = {} THEN 0 ELSE CHOOSE n \in at : \A m \in at : m <= n
Base(path) == SubSeq(path, LastSlash(path) + 1, Len(path))

\* http.DetectContentType(buffer[:n]) on the head of the local file
DetectContentType(content) ==
    IF content = "text" THEN "text/plain; charset=utf-8" ELSE "application/octet-stream"

\* if mimeType == "" { mimeType = "application/octet-stream" }
DefaultMime(mimeType) == IF mimeType = "" THEN "application/octet-stream" ELSE mimeType

\* if parentFolderID != "" { fileMeta.Parents = []string{parentFolderID} }
ParentsOfAlways(a) == <<a.parentFolderID>>
ParentsOf(a) == IF a.parentFolderID # <<>> THEN <<a.parentFolderID>> ELSE <<>>

\* &drive.File{...}: the fields the operations set, the others at their zero value
DriveFile(name, mime, parents, trashed) ==
    [Name |-> name, MimeType |-> mime, Parents |-> parents, Trashed |-> trashed]

\* the drive.File each operation hands to Files.Create / Files.Update
FileMeta(o, a) ==
    CASE o = "UploadFile" ->
            DriveFile(IF a.name = <<>> THEN Base(a.filePath) ELSE a.name,
                      DetectContentType(a.content), ParentsOf(a), FALSE)
      [] o = "UploadFileFromReader" ->
            DriveFile(a.name, DefaultMime(a.mimeType), ParentsOf(a), FALSE)
      [] o = "CreateFolder" -> DriveFile(a.name, FolderMime, ParentsOf(a), FALSE)
      [] o = "TrashFile" -> DriveFile(<<>>, "", <<>>, TRUE)
      [] OTHER -> DriveFile(<<>>, "", <<>>, FALSE)

\* Do() encodes the drive.File as the JSON request body: every field of
\* drive.File is tagged omitempty, so a field holding its zero value is left out
IsZero(k, v) ==
    CASE k = "Trashed" -> v = FALSE
      [] k = "MimeType" -> v = ""
      [] OTHER -> v = <<>>
Marshal(f) == [k \in {k \in DOMAIN f : ~IsZero(k, f[k])} |-> f[k]]

\* the request each operation issues
MRequest(o, a) ==
    CASE o \in CreateOps ->
            [api |-> "Files.Create", body |-> Marshal(FileMeta(o, a)),
             media |-> o # "CreateFolder",
             fields |-> IF o = "CreateFolder" THEN "id, name"
                        ELSE "id, name, mimeType, size, parents, webViewLink"]
      [] o \in UpdateOps ->
            [api |-> "Files.Update", fileId |-> a.fileID, body |-> Marshal(FileMeta(o, a))]
      [] o = "DeleteFile" -> [api |-> "Files.Delete", fileId |-> a.fileID]
      [] o = "GetExportLinks" ->
            [api |-> "Files.Get", fileId |-> a.fileID, fields |-> "exportLinks, mimeType"]
      [] OTHER -> [api |-> "Files.Get", fileId |-> a.fileID, fields |-> "mimeType"]

\* fmt.Errorf("unable to ...: %w", err) after Do()
FailMsg(o) ==
    CASE o \in {"UploadFile", "UploadFileFromReader"} -> "unable to upload file"
      [] o = "CreateFolder" -> "unable to create folder"
      [] o = "TrashFile" -> "unable to trash file"
      [] o = "RestoreFile" -> "unable to restore file"
      [] o = "DeleteFile" -> "unable to delete file permanently"
      [] OTHER -> "unable to get file metadata"

\* the service carries out a request on the object: an update changes the
\* fields present in the body, a delete removes the object
Serve(obj, req) ==
    CASE req.api = "Files.Update" ->
            [obj EXCEPT !.trashed = IF "Trashed" \in DOMAIN req.body
                                    THEN req.body["Trashed"] ELSE @]
      [] req.api = "Files.Delete" -> [obj EXCEPT !.exists = FALSE]
      [] OTHER -> obj

\* the object Do() returns
Answer(obj, req) ==
    [got |-> TRUE, ok |-> TRUE,
     id |-> IF req.api = "Files.Create" THEN NewId ELSE req.fileId,
     mimeType |-> obj.mimeType, exportLinks |-> obj.exportLinks]
Failure == [NoMResp EXCEPT !.got = TRUE]

MErr(msg, chain) == [NoMRet EXCEPT !.err = msg, !.chain = chain, !.returned = TRUE]
MOk == [NoMRet EXCEPT !.returned = TRUE]

\* if len(file.ExportLinks) == 0 { return nil, fmt.Errorf("file is not a Google
\* Workspace document ...") }; return file.ExportLinks, nil
ExportLinksResultUnchecked(file) ==
    [MOk EXCEPT !.links = file.exportLinks, !.nilLinks = FALSE]
ExportLinksResult(file) ==
    IF Cardinality(file.exportLinks) = 0
    THEN MErr("file is not a Google Workspace document", <<>>)
    ELSE [MOk EXCEPT !.links = file.exportLinks, !.nilLinks = FALSE]

\* isWorkspace := len(file.MimeType) > 28 && file.MimeType[:28] == "application/vnd.google-apps.";
\* folders are excluded
IsWorkspaceMime(m) ==
    IF m = FolderMimeChars THEN FALSE
    ELSE Len(m) > WorkspacePrefixLen /\ SubSeq(m, 1, WorkspacePrefixLen) = WorkspacePrefix

\* what the operation returns when Do() succeeded with the object r
MResult(o, r) ==
    CASE o \in CreateOps -> [MOk EXCEPT !.id = r.id]
      [] o = "GetExportLinks" -> ExportLinksResult(r)
      [] o = "IsWorkspaceDocument" -> [MOk EXCEPT !.flag = IsWorkspaceMime(r.mimeType)]
      [] OTHER -> MOk

\* defer file.Close()
CloseFile(f) == IF f = "open" THEN "closed" ELSE f

\* if err != nil { return ..., fmt.Errorf(...) }: where the call goes after a failed Do()
AfterFailureRetries == "call"
AfterFailure == "done"

InitOps ==
    /\ remote \in RemoteObjects
    /\ mop = "none" /\ margs = NoArgs /\ mpc = "ready" /\ mlog = <<>> /\ mresp = NoMResp
    /\ lastCreated = <<>> /\ upFile = "none" /\ mret = NoMRet
    /\ PathIdle /\ ListIdle /\ XferIdle /\ ConcIdle

\* the caller calls an operation (the previous call, if any, has returned)
M_Call ==
    /\ mpc \in {"ready", "done"}
    /\ \E o \in ObjectOps : \E a \in ArgsOf(o) : mop' = o /\ margs' = a
    /\ mpc' = "call" /\ mlog' = <<>> /\ mresp' = NoMResp /\ lastCreated' = <<>>
    /\ upFile' = "none" /\ mret' = NoMRet
    /\ UNCHANGED <<remote, pathVars, listVars, xferVars, concVars>>

\* an argument check fails
M_Reject ==
    /\ mpc = "call" /\ mlog = <<>>
    /\ MValidationError(mop, margs) # ""
    /\ mret' = MErr(MValidationError(mop, margs), <<>>)
    /\ mpc' = "done"
    /\ UNCHANGED <<mop, margs, mlog, mresp, remote, lastCreated, upFile,
                   pathVars, listVars, xferVars, concVars>>

\* UploadFile: os.Open(filePath) succeeds; defer file.Close()
M_Open ==
    /\ mpc = "call" /\ mop = "UploadFile" /\ mlog = <<>>
    /\ MValidationError(mop, margs) = ""
    /\ upFile' = "open"
    /\ mpc' = "local"
    /\ UNCHANGED <<mop, margs, mlog, mresp, remote, lastCreated, mret,
                   pathVars, listVars, xferVars, concVars>>

\* UploadFile: os.Open fails, or Stat, Read or Seek on the open file fails
M_LocalFails ==
    /\ mop = "UploadFile" /\ mlog = <<>>
    /\ \/ /\ mpc = "call" /\ MValidationError(mop, margs) = ""
          /\ mret' = MErr("unable to open file", <<"os error">>)
       \/ /\ mpc = "local"
          /\ \E msg \in {"unable to stat file", "unable to read file for MIME detection",
                         "unable to reset file pointer"} :
                mret' = MErr(msg, <<"os error">>)
    /\ upFile' = CloseFile(upFile)
    /\ mpc' = "done"
    /\ UNCHANGED <<mop, margs, mlog, mresp, remote, lastCreated,
                   pathVars, listVars, xferVars, concVars>>

\* the request is built and Do() sends it
M_Send ==
    /\ IF mop = "UploadFile" THEN mpc = "local"
       ELSE mpc = "call" /\ MValidationError(mop, margs) = ""
    /\ Len(mlog) < MaxRequests
    /\ mlog' = Append(mlog, MRequest(mop, margs))
    /\ mpc' = "sent"
    /\ UNCHANGED <<mop, margs, mresp, remote, lastCreated, upFile, mret,
                   pathVars, listVars, xferVars, concVars>>

\* Do() returns an error: the transport failed or the service refused
M_RequestFails ==
    /\ mpc = "sent"
    /\ mresp' = Failure
    /\ \E cause \in {"transport error", "googleapi error"} :
          mret' = MErr(FailMsg(mop), <<cause>>)
    /\ mpc' = AfterFailure
    /\ upFile' = CloseFile(upFile)
    /\ UNCHANGED <<mop, margs, mlog, remote, lastCreated,
                   pathVars, listVars, xferVars, concVars>>

\* Do() succeeds: the service has carried out the request
M_Response ==
    /\ mpc = "sent"
    /\ mop \notin CreateOps => remote.exists
    /\ LET req == mlog[Len(mlog)]
       IN  /\ remote' = Serve(remote, req)
           /\ lastCreated' = IF req.api = "Files.Create" THEN <<req.body>> ELSE lastCreated
           /\ mresp' = Answer(remote, req)
           /\ mret' = MResult(mop, Answer(remote, req))
    /\ mpc' = "done"
    /\ upFile' = CloseFile(upFile)
    /\ UNCHANGED <<mop, margs, mlog, pathVars, listVars, xferVars, concVars>>

NextOps == M_Call \/ M_Reject \/ M_Open \/ M_LocalFails \/ M_Send \/ M_RequestFails
           \/ M_Response

SpecOps == InitOps /\ [][NextOps]_vars

\* one call of any operation of the client
InitClient == Init \/ InitTransfer \/ InitOps
NextClient == Next \/ NextTransfer \/ NextOps
SpecClient == InitClient /\ [][NextClient]_vars

----------------------------------------------------------------------------
(* Calls running concurrently on one DriveClient: its only field, service, *)
(* is never assigned by a method; all other state of a call is local       *)

Workers == {1, 2}
ConcOps == {"ListFiles", "StreamFile", "TrashFile"}

\* containers A, B; F1 in A; F2 in B and A
ConcCorpus == <<FolderA, FolderB, Item(1, "inA"), Item(2, "inBandA")>>
ConcSize == 2048

\* the objects as the backend holds them now
Backend(trashedIds) ==
    [n \in 1..Len(ConcCorpus) |->
        [ConcCorpus[n] EXCEPT !.Trashed = (ConcCorpus[n].Id \in trashedIds)]]

\* folderMap := make(map[string]string): the variables of a call are its own;
\* the storage a call keeps its folder listing in
IndexSlotShared(c) == 1
IndexSlot(c) == c

\* for _, item := range r.Files { ... } with the folder listing idx of the call
RECURSIVE ConcProcess(_, _, _)
ConcProcess(fs, items, idx) ==
    IF Len(items) = 0 THEN fs
    ELSE LET item == Head(items)
             path == LF_buildPath(item.Parents, BuildFolderMap(idx), idx)
         IN  IF Keep(item)
             THEN ConcProcess(AppendFile(fs, FileInfo(item, path)), Tail(items), idx)
             ELSE ConcProcess(fs, Tail(items), idx)

InitConc ==
    /\ cop \in [Workers -> ConcOps]
    /\ cpc = [c \in Workers |-> "start"]
    /\ cpageToken = [c \in Workers |-> <<>>]
    /\ cfiles = [c \in Workers |-> <<>>]
    /\ cindex = [c \in Workers |-> <<>>]
    /\ cwritten = [c \in Workers |-> 0]
    /\ cgot = [c \in Workers |-> <<>>]
    /\ cret = [c \in Workers |-> NoRet]
    /\ ctrashed = {}
    /\ PathIdle /\ ListIdle /\ XferIdle /\ OpsIdle

\* call c stores v as its result and is done
ConcReturn(c, v) == cret' = [cret EXCEPT ![c] = v] /\ cpc' = [cpc EXCEPT ![c] = "done"]

\* call c records the answer a
Got(c, a) == cgot' = [cgot EXCEPT ![c] = Append(@, a)]

\* ListFiles: the folder listing arrives and the index is built
C_ListFolders(c) ==
    /\ cop[c] = "ListFiles" /\ cpc[c] = "start"
    /\ \E chunk \in ChunkChoices(FolderPageSize) :
          LET r == ServerPage(Backend(ctrashed), FoldersRequest, chunk)
          IN  /\ cindex' = [cindex EXCEPT ![IndexSlot(c)] = r.files]
              /\ Got(c, [kind |-> "folders", ok |-> TRUE, files |-> r.files, next |-> r.next])
    /\ cpc' = [cpc EXCEPT ![c] = "pages"]
    /\ UNCHANGED <<cop, cpageToken, cfiles, cwritten, cret, ctrashed,
                   pathVars, listVars, xferVars, opsVars>>

\* ListFiles: one iteration of the page loop
C_FetchPage(c) ==
    /\ cop[c] = "ListFiles" /\ cpc[c] = "pages"
    /\ LET req == FilesRequest(FilesQuery("ListFiles", <<>>), cpageToken[c])
           r == ServerPage(Backend(ctrashed), req, MaxChunk)
           fs == ConcProcess(cfiles[c], r.files, cindex[IndexSlot(c)])
       IN  /\ Got(c, [kind |-> "files", ok |-> TRUE, files |-> r.files, next |-> r.next])
           /\ cfiles' = [cfiles EXCEPT ![c] = fs]
           /\ cpageToken' = [cpageToken EXCEPT ![c] = r.next]
           /\ IF r.next = <<>> THEN ConcReturn(c, OkReturn(fs)) ELSE UNCHANGED <<cret, cpc>>
    /\ UNCHANGED <<cop, cindex, cwritten, ctrashed, pathVars, listVars, xferVars, opsVars>>

\* ListFiles: the folder request or a page request fails
C_ListFails(c) ==
    /\ cop[c] = "ListFiles" /\ cpc[c] \in {"start", "pages"}
    /\ Got(c, [kind |-> IF cpc[c] = "start" THEN "folders" ELSE "files",
               ok |-> FALSE, files |-> <<>>, next |-> <<>>])
    /\ ConcReturn(c, ErrorReturn(cfiles[c], IF cpc[c] = "start"
                                           THEN "unable to retrieve folders"
                                           ELSE "unable to retrieve files"))
    /\ UNCHANGED <<cop, cpageToken, cfiles, cindex, cwritten, ctrashed,
                   pathVars, listVars, xferVars, opsVars>>

\* StreamFile: Download() answers, with an error or with a status
C_Download(c) ==
    /\ cop[c] = "StreamFile" /\ cpc[c] = "start"
    /\ \E ok \in BOOLEAN : \E status \in {StatusOK, 404} :
          /\ ~ok => status = 404
          /\ Got(c, [kind |-> "download", ok |-> ok, status |-> status])
          /\ IF ~ok
             THEN ConcReturn(c, TReturnWrapped(0, DownloadErrMsg("StreamFile"),
                                               <<"transport error">>))
             ELSE IF Rejected("StreamFile", status)
             THEN ConcReturn(c, TReturn(0, "unexpected status code"))
             ELSE cpc' = [cpc EXCEPT ![c] = "copy"] /\ UNCHANGED cret
    /\ UNCHANGED <<cop, cpageToken, cfiles, cindex, cwritten, ctrashed,
                   pathVars, listVars, xferVars, opsVars>>

\* StreamFile: io.Copy runs to the end of the body or to an error
C_Copy(c) ==
    /\ cop[c] = "StreamFile" /\ cpc[c] = "copy"
    /\ \E n \in {0, ChunkLen(ConcSize), ConcSize} : \E failed \in BOOLEAN :
          /\ failed \/ n = ConcSize
          /\ Got(c, [kind |-> "copy", ok |-> ~failed, n |-> n])
          /\ cwritten' = [cwritten EXCEPT ![c] = n]
          /\ ConcReturn(c, IF failed THEN CopyError("StreamFile", n, "readError")
                           ELSE TReturn(n, ""))
    /\ UNCHANGED <<cop, cpageToken, cfiles, cindex, ctrashed,
                   pathVars, listVars, xferVars, opsVars>>

\* TrashFile: the update is carried out, or fails
C_Trash(c) ==
    /\ cop[c] = "TrashFile" /\ cpc[c] = "start"
    /\ \E ok \in BOOLEAN :
          /\ Got(c, [kind |-> "update", ok |-> ok])
          /\ ctrashed' = IF ok THEN ctrashed \cup {ItemId(1)} ELSE ctrashed
          /\ ConcReturn(c, IF ok THEN MOk
                           ELSE MErr(FailMsg("TrashFile"), <<"transport error">>))
    /\ UNCHANGED <<cop, cpageToken, cfiles, cindex, cwritten,
                   pathVars, listVars, xferVars, opsVars>>

NextConc ==
    \E c \in Workers :
        \/ C_ListFolders(c) \/ C_FetchPage(c) \/ C_ListFails(c)
        \/ C_Download(c) \/ C_Copy(c) \/ C_Trash(c)

SpecConc == InitConc /\ [][NextConc]_vars

----------------------------------------------------------------------------
(* C10 *)

\* the byte range a server reads out of a Range header "bytes=<first>-<last>"
DashAt(h) == CHOOSE n \in (Len(BytesEq) + 2)..Len(h) : h[n] = "-"
ParsedRange(h) ==
    [StartByte |-> ParseDec(SubSeq(h, Len(BytesEq) + 1, DashAt(h) - 1)),
     EndByte |-> ParseDec(SubSeq(h, DashAt(h) + 1, Len(h)))]

BadRange == opts.StartByte < 0 \/ opts.EndByte < 0 \/ opts.StartByte > opts.EndByte
GoodIds == fileID # <<>> /\ (top = "PartialDownloadRevision" => revisionID # <<>>)

\* C10: with StartByte < 0, EndByte < 0 or StartByte > EndByte the three
\* range operations return an error and 0 bytes, issue no request and write
\* nothing to the sink; with 0 <= StartByte <= EndByte (and the identifiers
\* given) exactly one request is issued and its Range header reads
\* bytes=StartByte-EndByte.
C10_RangeValidatedBeforeRequest ==
    /\ (top \in RangeOps /\ BadRange) =>
          /\ netlog = <<>> /\ sink = <<>> /\ tpc \in {"call", "done"}
          /\ tpc = "done" => tret.returned /\ tret.written = 0 /\ tret.err # ""
    /\ (top \in RangeOps /\ ~BadRange /\ GoodIds /\ tpc # "call") =>
          /\ Len(netlog) = 1
          /\ HasPrefix(netlog[1].Range, BytesEq)
          /\ ParsedRange(netlog[1].Range) = [StartByte |-> opts.StartByte,
                                             EndByte |-> opts.EndByte]

\* start=100, end=50 with a valid file ID has been refused without a request
C10_Witness ==
    /\ top \in RangeOps /\ tpc = "done" /\ fileID # <<>>
    /\ opts = [StartByte |-> 100, EndByte |-> 50]
    /\ tret = TReturn(0, "start byte must be less than or equal to end byte")
    /\ netlog = <<>> /\ sink = <<>>

----------------------------------------------------------------------------
(* C11 *)

RangeInsideObject == 0 <= opts.StartByte /\ opts.StartByte <= opts.EndByte
                     /\ opts.EndByte < objSize

\* C11: a range operation that succeeds on a range StartByte..EndByte lying
\* inside the object reports EndByte - StartByte + 1 bytes, whether the
\* service answered 206 or 200 (so 1024 for 0..1023 of a 2048-byte object).
C11_RangeBytesWritten ==
    (/\ top \in RangeOps /\ tpc = "done" /\ tret.err = ""
     /\ RangeInsideObject
     /\ resp.StatusCode \in {StatusOK, StatusPartialContent})
    => tret.written = opts.EndByte - opts.StartByte + 1

----------------------------------------------------------------------------
(* C12 *)

\* the statuses on which the claim lets an operation copy the body
AcceptedStatuses(t) == IF Inner(t) \in RangeOps THEN {200, 206} ELSE {200}

ResponseInHand == resp # NoResp

\* C12: StreamFile, ExportWorkspaceDocument and DownloadRevision copy the
\* body only on status 200, the range operations only on 200 or 206; on any
\* other status the operation has returned an error with count 0 and the
\* sink is empty.
C12_StatusGate ==
    (ResponseInHand /\ resp.StatusCode \notin AcceptedStatuses(top)) =>
        /\ tpc = "done" /\ tret.returned
        /\ tret.err # "" /\ tret.written = 0
        /\ sink = <<>> /\ written = 0

\* StreamFile got a 206 answer for a non-empty object and refused it
C12_Witness ==
    /\ top = "StreamFile" /\ objSize > 0
    /\ resp.StatusCode = 206
    /\ tpc = "done" /\ tret = TReturn(0, "unexpected status code")
    /\ sink = <<>>

----------------------------------------------------------------------------
(* C13 *)

CopyFailed == copyOutcome \in {"readError", "writeError", "cancelled"}

\* the writer holds exactly the first n bytes of the body, in order
RECURSIVE HoldsFrom(_, _)
HoldsFrom(sk, off) ==
    sk = <<>> \/ (sk[1].off = off /\ sk[1].len > 0 /\ HoldsFrom(Tail(sk), off + sk[1].len))
HoldsPrefix(sk, body, n) == HoldsFrom(sk, body.off) /\ SinkBytes(sk) = n /\ n <= body.len

\* C13: in every transfer operation, when the body copy fails after n bytes
\* reached the sink, the operation returns a non-nil error with count
\* exactly n, and the sink holds exactly those n bytes.
C13_PartialCountOnCopyFailure ==
    CopyFailed =>
        /\ tpc = "done" /\ tret.returned
        /\ tret.err # ""
        /\ tret.written = SinkBytes(sink)
        /\ HoldsPrefix(sink, resp.Body, tret.written)

\* DownloadFile: the write to the output file failed after 1024 + 256 bytes
C13_Witness ==
    /\ top = "DownloadFile" /\ copyOutcome = "writeError"
    /\ tpc = "done" /\ tret.written = 1280 /\ SinkBytes(sink) = 1280
    /\ tret.err = "unable to download file"
    /\ tret.chain = <<"unable to stream file content", "writeError">>

----------------------------------------------------------------------------
(* C14 *)

Causes(r) == {r.chain[n] : n \in 1..Len(r.chain)}

CancelledWhileCopying == tpc = "copy" /\ ctx = "cancelled"

----------------------------------------------------------------------------
(* C15 *)

\* a transfer was called with an empty file ID, revision ID or export format
TransferArgumentEmpty ==
    /\ top \in TransferOps
    /\ \/ fileID = <<>>
       \/ top \in RevisionOps /\ revisionID = <<>>
       \/ top \in ExportOps /\ format = <<>>

\* an upload or folder creation was called with an empty name, or another
\* operation with an empty file ID
ObjectArgumentEmpty ==
    \/ mop \in {"UploadFileFromReader", "CreateFolder"} /\ margs.name = <<>>
    \/ mop \in UpdateOps \cup GetOps \cup {"DeleteFile"} /\ margs.fileID = <<>>

\* C15: an operation called with its required identifier, name, revision ID
\* or export format empty issues no remote request and returns an error; in
\* particular UploadFileFromReader with an empty name issues none.
C15_EmptyArgumentRejectedLocally ==
    /\ TransferArgumentEmpty =>
          /\ netlog = <<>> /\ tpc \in {"open", "call", "done"} /\ sink = <<>>
          /\ tpc = "done" => tret.returned /\ tret.err # "" /\ tret.written = 0
    /\ ObjectArgumentEmpty =>
          /\ mlog = <<>> /\ mpc \in {"call", "done"} /\ ~mresp.got
          /\ mpc = "done" => mret.returned /\ mret.err # ""

\* UploadFileFromReader with a reader and an empty name was refused unsent
C15_Witness ==
    /\ mop = "UploadFileFromReader" /\ margs.reader = "r" /\ margs.name = <<>>
    /\ mpc = "done" /\ mret = MErr("file name cannot be empty", <<>>)
    /\ mlog = <<>> /\ lastCreated = <<>>

----------------------------------------------------------------------------
(* C16 *)

ExportLinksAnswered == mop = "GetExportLinks" /\ mpc = "done" /\ mresp.got

\* C16: GetExportLinks returns an error and no map when the backend's
\* export-link map is empty, with a message other than the one of a failed
\* metadata request; a non-empty map is returned unchanged without error.
C16_ExportLinksOutcomes ==
    ExportLinksAnswered =>
        /\ ~mresp.ok =>
              mret.err = "unable to get file metadata" /\ mret.nilLinks
        /\ (mresp.ok /\ mresp.exportLinks = {}) =>
              /\ mret.err \notin {"", "unable to get file metadata"}
              /\ mret.nilLinks /\ mret.links = {}
        /\ (mresp.ok /\ mresp.exportLinks # {}) =>
              /\ mret.err = "" /\ ~mret.nilLinks
              /\ mret.links = mresp.exportLinks /\ mret.links = remote.exportLinks

\* GetExportLinks on a plain file: answered, empty map, refused as not a document
C16_Witness ==
    /\ ExportLinksAnswered /\ mresp.ok /\ remote.mimeType = PlainMime
    /\ mresp.exportLinks = {}
    /\ mret = MErr("file is not a Google Workspace document", <<>>)

----------------------------------------------------------------------------
(* C18 *)

\* C18: when a transfer or an upload from a local file has returned, by
\* whichever path, the response body it obtained and the local file it opened
\* are closed.
C18_HandlesReleasedOnReturn ==
    /\ tpc = "done" =>
          /\ bodyState # "open" /\ outState # "open"
          /\ ResponseInHand => bodyState = "closed"
    /\ mpc = "done" => upFile # "open"
    /\ bodyState = "open" => tpc = "copy"
    /\ outState = "open" => tpc \in {"call", "sent", "copy"}
    /\ upFile = "open" => mpc \in {"local", "sent"}

\* DownloadFile cancelled in mid-copy: body and output file are both closed
C18_Witness ==
    /\ top = "DownloadFile" /\ tpc = "done" /\ copyOutcome = "cancelled"
    /\ tret.written > 0
    /\ bodyState = "closed" /\ outState = "closed"

----------------------------------------------------------------------------
(* C19 *)

FailedAt(n) == ~responses[n].ok

\* C19: no operation retries: a failed request is the last request of its
\* operation and the operation returns the failure; a returned operation
\* sends nothing more; a single-request operation that succeeds has issued
\* exactly one request.
C19_NoInternalRetry ==
    /\ [](\A n \in 1..Len(responses) :
             FailedAt(n) => /\ n = Len(requests)
                            /\ pc = "done" /\ ret.returned /\ ret.err # "")
    /\ [](/\ Len(netlog) <= 1
          /\ (tret.returned /\ tret.err = "" /\ top # "none") => Len(netlog) = 1)
    /\ [](/\ Len(mlog) <= 1
          /\ (mresp.got /\ ~mresp.ok) => mpc = "done" /\ mret.returned /\ mret.err # ""
          /\ (mret.returned /\ mret.err = "") => Len(mlog) = 1)
    /\ [][/\ pc = "done" => requests' = requests
          /\ tpc = "done" => netlog' = netlog
          /\ mpc = "done" => mlog' \in {mlog, <<>>}]_vars

\* TrashFile's only request failed and the failure was returned
C19_Witness ==
    /\ mop = "TrashFile" /\ mpc = "done" /\ mresp = Failure
    /\ Len(mlog) = 1 /\ mlog[1].api = "Files.Update"
    /\ mret.err = "unable to trash file"

----------------------------------------------------------------------------
(* C20 *)

\* C20: after a successful TrashFile the object is trashed, and after a
\* successful RestoreFile it is no longer trashed.
C20_RestoreUntrashes ==
    /\ (mop = "TrashFile" /\ mpc = "done" /\ mret.err = "") => remote.trashed
    /\ (mop = "RestoreFile" /\ mpc = "done" /\ mret.err = "") => ~remote.trashed

----------------------------------------------------------------------------
(* C17 *)

\* the page loop of ListFiles run on the page answers alone
RECURSIVE AlonePages(_, _, _)
AlonePages(fs, pages, idx) ==
    IF pages = <<>> THEN OkReturn(fs)
    ELSE IF ~Head(pages).ok THEN ErrorReturn(fs, "unable to retrieve files")
    ELSE AlonePages(ConcProcess(fs, Head(pages).files, idx), Tail(pages), idx)

\* the result of operation o run by itself on the answers got
AloneResult(o, got) ==
    CASE o = "ListFiles" ->
            IF ~got[1].ok THEN ErrorReturn(<<>>, "unable to retrieve folders")
            ELSE AlonePages(<<>>, Tail(got), got[1].files)
      [] o = "StreamFile" ->
            IF ~got[1].ok
            THEN TReturnWrapped(0, "unable to download file", <<"transport error">>)
            ELSE IF got[1].status # 200 THEN TReturn(0, "unexpected status code")
            ELSE IF got[2].ok THEN TReturn(got[2].n, "")
            ELSE TReturnWrapped(got[2].n, "unable to stream file content", <<"readError">>)
      [] OTHER ->
            IF got[1].ok THEN MOk ELSE MErr("unable to trash file", <<"transport error">>)

\* C17: whatever the interleaving of the calls on one DriveClient, the
\* result of each call is the result the operation produces by itself on
\* the answers that call received.
C17_CallsDoNotInterfere ==
    \A c \in Workers : cpc[c] = "done" => cret[c] = AloneResult(cop[c], cgot[c])

\* two ListFiles calls have both succeeded on different folder listings,
\* and each result carries the paths of its own listing
C17_Witness ==
    /\ \A c \in Workers : cop[c] = "ListFiles" /\ cpc[c] = "done" /\ cret[c].err = ""
    /\ Len(cgot[1][1].files) = 1 /\ Len(cgot[2][1].files) = 2
    /\ Len(cret[1].files) = 2
    /\ cret[1].files # cret[2].files

----------------------------------------------------------------------------
(* C21 *)

\* the content a download request addresses: the current content of a file,
\* or one stored revision of a file
Addressed(req) ==
    IF req.api = "Revisions.Get"
    THEN [kind |-> "revision", file |-> req.fileId, revision |-> req.revisionId]
    ELSE [kind |-> "file", file |-> req.fileId, revision |-> <<>>]

\* C21: the range request of PartialDownloadFile (and PartialStreamFile)
\* addresses the same content as the request StreamFile issues for that
\* file ID: the object identified by fileID itself.
C21_RangeAddressesTheFile ==
    (top \in {"PartialDownloadFile", "PartialStreamFile"} /\ netlog # <<>>) =>
        Addressed(netlog[1])
            = Addressed(TransferRequest("StreamFile", fileID, <<>>, <<>>, CallOpts))

----------------------------------------------------------------------------
(* C22 *)

\* the walk from the first parent passes m distinct indexed containers and
\* then meets an identifier the index does not hold
BrokenAfter(m) ==
    /\ parentIDs # <<>>
    /\ DistinctChain(parentIDs[1], m)
    /\ ~Indexed(Walk(m, parentIDs[1]))
    /\ Walk(m, parentIDs[1]) # Nowhere

\* names of the m containers passed, topmost first
NamesPassed(m) == [k \in 1..m |-> EntryOf(Walk(m - k, parentIDs[1])).Name]

RootThen(names) == IF names = <<>> THEN MyDrive ELSE MyDrive \o <<"/">> \o Join(names, Slash)

AllAnswered == \A n \in 1..Len(responses) : responses[n].ok

\* an emittable object whose first parent the folder listing does not hold
Orphan(o) ==
    /\ Emittable(o) /\ o.Parents # <<>>
    /\ o.Parents[1] \notin IdsOf(responses[1].files)

\* C22: when an identifier on the upward walk is absent from the index,
\* resolution returns "My Drive" followed by the names passed so far (just
\* "My Drive" if the first parent is absent); in an enumeration such an
\* object is still emitted and the call returns no error.
C22_BrokenChainDegrades ==
    /\ \A m \in 0..(MaxLevels - 1) :
          (Returned /\ BrokenAfter(m)) => result = RootThen(NamesPassed(m))
    /\ (pc = "done" /\ AllAnswered) => ret.err = "" /\ ~ret.isNil
    /\ Succeeded =>
          \A o \in RangeOf(ReturnedItems) :
              Orphan(o) => \E n \in 1..Len(ret.files) :
                              ret.files[n].ID = o.Id /\ ret.files[n].FolderPath = MyDrive

\* an object whose first parent B is missing from the folder listing has
\* been returned with the path "My Drive" by a successful call
C22_Witness ==
    /\ Succeeded
    /\ \E n \in 1..Len(ret.files) :
          /\ ret.files[n].Parents # <<>> /\ ret.files[n].Parents[1] = IdB
          /\ IdB \notin IdsOf(responses[1].files)
          /\ ret.files[n].FolderPath = MyDrive

----------------------------------------------------------------------------
(* C23 *)

\* the first-parent chain of the object has exactly d containers, all in
\* the listing, the topmost without a parent
CleanChain(d) ==
    /\ parentIDs # <<>>
    /\ DistinctChain(parentIDs[1], d)
    /\ Walk(d, parentIDs[1]) = Nowhere

\* the listing and the parent list with every non-first parent removed
FirstOnly(ps) == IF ps = <<>> THEN <<>> ELSE <<ps[1]>>
FirstParentsOnly(listing) ==
    [n \in 1..Len(listing) |-> [listing[n] EXCEPT !.Parents = FirstOnly(@)]]

\* the resolver named r run on a listing and a parent list
Resolve(r, listing, ps) ==
    IF r = "ListFiles" THEN LF_buildPath(ps, BuildFolderMap(listing), listing)
    ELSE LFF_buildPath(ps, BuildFolderMap(listing), BuildFolderParentMap(listing))

\* C23: on an acyclic, fully indexed first-parent chain of at most 10
\* containers the path is "My Drive/" followed by the container names from
\* the topmost down to the immediate parent; it is the path obtained with
\* every non-first parent removed.
C23_PathFollowsFirstParents ==
    \A d \in 1..MaxLevels :
        (Returned /\ CleanChain(d)) =>
            /\ result = MyDrive \o <<"/">> \o Join(NamesPassed(d), Slash)
            /\ result = Resolve(resolver, FirstParentsOnly(foldersResp),
                                FirstOnly(parentIDs))

\* an object in B, B in A (B lists a second parent): "My Drive/A/B"
C23_Witness ==
    /\ Returned /\ CleanChain(2)
    /\ parentIDs[1] = IdB /\ Len(EntryOf(IdB).Parents) = 2
    /\ result = MyDrive \o <<"/", "A", "/", "B">>

----------------------------------------------------------------------------
(* C24 *)

\* C24: for every listing and parent list, resolution looks at most 10
\* identifiers up, terminates, and returns the root token followed by at
\* most 10 segments, the names of distinct containers of the listing.
C24_TenLevelCeiling ==
    /\ [](/\ i <= MaxLevels
          /\ Cardinality(visited) <= MaxLevels
          /\ Len(pathParts) <= MaxLevels
          /\ Returned =>
                LET n == SegmentsAfterRoot(result)
                IN  /\ Split(result)[1] = MyDrive
                    /\ n <= MaxLevels
                    /\ n > 0 => /\ DistinctChain(parentIDs[1], n)
                                /\ Tail(Split(result)) = NamesPassed(n))
    /\ <>Returned

\* a chain of 12 containers has been resolved from its bottom: 10 lookups, 10 segments
C24_Witness ==
    /\ Returned /\ parentIDs # <<>> /\ DistinctChain(parentIDs[1], MaxLevels + 2)
    /\ Cardinality(visited) = MaxLevels
    /\ Len(Split(result)) = MaxLevels + 1

----------------------------------------------------------------------------
(* C28 *)

UniqueIds(listing) ==
    \A n1, n2 \in 1..Len(listing) : n1 # n2 => listing[n1].Id # listing[n2].Id

\* C28: on a folder listing with unique identifiers the buildPath of
\* ListFiles and the buildPath of ListFilesInFolder return the same string
\* for every parent list.
C28_ResolversAgree ==
    (Returned /\ UniqueIds(foldersResp)) =>
        /\ result = Resolve("ListFiles", foldersResp, parentIDs)
        /\ result = Resolve("ListFilesInFolder", foldersResp, parentIDs)

\* the stepped ListFiles resolver has returned two segments on a cycle of
\* two containers, as ListFilesInFolder's does
C28_Witness ==
    /\ Returned /\ resolver = "ListFiles" /\ StartsOnCycle(2)
    /\ SegmentsAfterRoot(result) = 2
    /\ result = Resolve("ListFilesInFolder", foldersResp, parentIDs)

----------------------------------------------------------------------------
(* C26 *)

FoldersFailed == responses # <<>> /\ ~responses[1].ok

\* C26: when the folder request fails, the enumeration has returned an
\* error and a nil record list, the folder request is the only request it
\* made (no file-listing request), and no index was built or returned.
C26_FolderFailureAborts ==
    FoldersFailed =>
        /\ pc = "done" /\ ret.returned
        /\ ret.err = "unable to retrieve folders"
        /\ ret.isNil /\ ret.files = <<>>
        /\ requests = <<FoldersRequest>> /\ FileRequests = <<>>
        /\ folderMap = <<>> /\ folderParentMap = <<>> /\ folderFiles = <<>>
        /\ DOMAIN ret = {"files", "isNil", "err", "returned"}

\* ListFilesInFolder of folder A has returned on a failed folder request
\* against a backend holding folders and files
C26_Witness ==
    /\ FoldersFailed /\ pc = "done" /\ ret.isNil
    /\ op = "ListFilesInFolder" /\ parentFolderID = IdA
    /\ corpus = ExampleCorpus

----------------------------------------------------------------------------
(* C27 *)

IdKeyedOps == {"TrashFile", "RestoreFile", "DeleteFile"}
ApiOf(o) == IF o = "DeleteFile" THEN "Files.Delete" ELSE "Files.Update"

\* err == nil on return exactly when Do() succeeded
ReturnedNilIffServed == mpc = "done" => (mret.err = "" <=> mresp.ok)

\* C27: TrashFile, RestoreFile and DeleteFile with a non-empty identifier
\* issue exactly one request, addressed to that identifier, and return nil
\* exactly when the request succeeded; CreateFolder with a name issues one
\* create request carrying the folder content type, with a parent list only
\* when parentFolderID is non-empty; none of the four opens a local file or
\* changes anything but the request log, the response and the result.
C27_MetadataOperations ==
    /\ [](/\ (mop \in IdKeyedOps /\ margs.fileID # <<>> /\ mpc \in {"sent", "done"}) =>
                /\ Len(mlog) = 1
                /\ mlog[1].api = ApiOf(mop)
                /\ mlog[1].fileId = margs.fileID
                /\ ReturnedNilIffServed
          /\ (mop = "CreateFolder" /\ margs.name # <<>> /\ mpc \in {"sent", "done"}) =>
                /\ Len(mlog) = 1
                /\ mlog[1].api = "Files.Create" /\ ~mlog[1].media
                /\ mlog[1].body["MimeType"] = FolderMime
                /\ mlog[1].body["Name"] = margs.name
                /\ "Parents" \in DOMAIN mlog[1].body <=> margs.parentFolderID # <<>>
                /\ margs.parentFolderID # <<>> =>
                        mlog[1].body["Parents"] = <<margs.parentFolderID>>
                /\ ReturnedNilIffServed
          /\ mop \in IdKeyedOps \cup {"CreateFolder"} => upFile = "none")
    /\ [][(mop \in IdKeyedOps \cup {"CreateFolder"} /\ mpc \in {"call", "sent"}) =>
            UNCHANGED <<mop, margs, upFile,
                        pathVars, listVars, xferVars, concVars>>]_vars

\* CreateFolder("N", A) has returned nil after one create request naming A as parent
C27_Witness ==
    /\ mop = "CreateFolder" /\ mpc = "done" /\ mret.err = ""
    /\ margs.parentFolderID = IdA
    /\ Len(mlog) = 1 /\ mlog[1].body["Parents"] = <<IdA>>

----------------------------------------------------------------------------
(* C30 *)

\* os.Create(outputPath) has succeeded in this call
Created == top \in ToFileOps /\ outState # "none"

\* the call returned before io.Copy started: a validation error, a failed
\* Download() or a rejected status
ReturnedBeforeCopy == tpc = "done" /\ copyOutcome = "none"

\* C30: DownloadFile and ExportWorkspaceDocumentToFile create (or truncate)
\* the output file before the identifier and format are checked and before
\* any request; when the file was created, on return it exists and holds
\* exactly the returned byte count, which is 0 after a validation error, a
\* failed request or a rejected status.
C30_OutputFileCreatedFirst ==
    top \in ToFileOps =>
        /\ (tpc \in {"call", "sent", "copy"} \/ netlog # <<>>) => Created
        /\ (Created /\ tpc = "call") => disk.exists /\ disk.len = 0
        /\ (Created /\ tpc = "done") =>
                /\ outputPath # <<>>
                /\ disk.exists /\ disk.len = tret.written
                /\ disk.len = SinkBytes(sink)
                /\ ReturnedBeforeCopy => tret.written = 0
        /\ ~Created => disk \in PriorFiles /\ netlog = <<>>

\* DownloadFile with an empty file identifier onto an existing file: the
\* call has returned the identifier error and the file is now empty
C30_Witness ==
    /\ top = "DownloadFile" /\ fileID = <<>> /\ Created /\ tpc = "done"
    /\ tret.chain = <<"file ID cannot be empty">>
    /\ disk = [exists |-> TRUE, len |-> 0, replaced |-> TRUE]

----------------------------------------------------------------------------
(* C25 *)

FolderRequestPositions == {n \in 1..Len(requests) : requests[n].kind = "folders"}

\* C25: an enumeration call issues one folder-listing request, as its first
\* request; the index is written only by the step that handles its response
\* and never afterwards; every FolderPath, of every page, is the path
\* resolved against that one response, whatever the backend's folders have
\* become in the meantime.
C25_IndexIsASnapshot ==
    /\ [](/\ pc # "start" => FolderRequestPositions = {1}
          /\ pc = "start" => requests = <<>> /\ folderMap = <<>>
          /\ \A n \in 1..Len(files) :
                files[n].FolderPath = Resolve(op, responses[1].files, files[n].Parents)
          /\ Succeeded => ret.files = files)
    /\ [][pc # "start" => UNCHANGED <<folderMap, folderParentMap, folderFiles>>]_vars

\* a call has succeeded over several pages after folder A was renamed on the
\* backend, and reports a file under the name A had when the index was built
C25_Witness ==
    /\ Succeeded /\ Len(FileRequests) >= 2
    /\ corpus[1].Name = <<"Z">>
    /\ \E n \in 1..Len(ret.files) : ret.files[n].FolderPath = MyDriveA

----------------------------------------------------------------------------
(* C29 *)

LastResponse == responses[Len(responses)]
\* the backend never ends the cursor chain of this call's listing
Endless ==
    /\ fileChunk = 0
    /\ \E n \in 1..Len(corpus) : Matches(corpus[n], FilesQuery(op, parentFolderID))

\* C29: a call returns as soon as a request fails or a file page carries an
\* empty nextPageToken, and in no other way; it has issued one folder
\* request and one file request per page; it returns whenever the backend
\* ends the cursor chain, and against a backend that repeats a non-empty
\* cursor it never returns unless a request fails.
C29_LoopExits ==
    /\ [](/\ pc = "done" <=>
                /\ responses # <<>>
                /\ \/ ~LastResponse.ok
                   \/ LastResponse.kind = "files" /\ LastResponse.next = <<>>
          /\ Len(requests) = Len(responses)
          /\ pc # "start" =>
                /\ FolderRequestPositions = {1}
                /\ Len(FileRequests) = Len(requests) - 1
                /\ Len(FileRequests) = Len(FileResponses)
          /\ (Endless /\ AllAnswered) => pc # "done")
    /\ [](~Endless => <>(pc = "done"))

\* a call has returned its records after three file pages
C29_Witness ==
    /\ Succeeded /\ Len(requests) = 4 /\ Len(FileResponses) = 3
    /\ \A n \in 1..2 : FileResponses[n].next # <<>>
    /\ FileResponses[3].next = <<>>
====
